---- MODULE Spec2Model ----
(***************************************************************************)
(* Request-governance utilities of the web administration console           *)
(* (src/utils/security.rs, src/utils/audit.rs) and the layout-configuration *)
(* handlers that call them (src/components/layout/config.rs), and the       *)
(* builder of configuration updates, FormData::build_update                 *)
(* (src/pages/config/mod.rs), with the read-side helpers of the settings   *)
(* map, SettingsValues::array_values and SettingsValues::format.           *)
(*                                                                         *)
(* The three process-wide singletons RATE_LIMITS, CSRF_TOKENS and           *)
(* AUDIT_LOGS are each guarded by one Mutex that every public function      *)
(* holds from its first line to its return, so every public function is one *)
(* atomic action of the model.                                             *)
(***************************************************************************)
EXTENDS Integers, Sequences, FiniteSets, TLC

VARIABLES
    now,        \* Instant::now(): the monotonic clock, in whole seconds
    limits,     \* RATE_LIMITS: identifier -> Vec<Instant> (a partial map)
    rlLast,     \* history: the last rate-limiter operation and its result
    okLog,      \* history: per identifier, the times of the Ok results that
                \* lie in the window (now-60, now]
    rejected,   \* history: the identifiers a check has answered Err for
    tokens,     \* CSRF_TOKENS: token -> Instant of issue (a partial map)
    csrfLock,   \* the Mutex of CSRF_TOKENS: the thread that holds it, or 0
    csrfLast,   \* history: the last token-store operation and its result
    validCount, \* history: per token, the validations that returned true
                \* since the token was last issued
    issuedAt,   \* history: per token, the instant it was last issued, or -1
    pc,         \* per thread: where it stands in validate_csrf_token
    arg,        \* per thread: the token it validates
    ret,        \* per thread: what validate_csrf_token returned
    overlap,    \* history: two calls on one token were in flight together
    utc,        \* Utc::now(): the wall clock, in whole days
    auditLogs,  \* AUDIT_LOGS: VecDeque<AuditLog>, oldest entry first
    logged,     \* history: how many times log_audit has been called
    swept,      \* history: how many sweeps have removed an entry
    snapshot,   \* the Vec<AuditLog> the last get_audit_logs returned
    config,         \* signal config: the LayoutConfig in use
    storage,        \* LocalStorage["layout_config"]
    is_editing,     \* signal is_editing
    new_logo_url,   \* signal new_logo_url
    new_title,      \* signal new_title
    error,          \* signal error
    show_preview,   \* signal show_preview
    is_uploading,   \* signal is_uploading
    auto_save,      \* signal auto_save
    is_saving,      \* signal is_saving
    csrf_token,     \* signal csrf_token
    readers,        \* FileReaders whose onload has not run yet
    tracked,        \* the signals the auto-save effect read in its last run
    effectDue,      \* a tracked signal was set since the effect last ran
    steps,          \* history: how many handlers and effects have run
    lastEvent,      \* history: the handler that ran last
    form,           \* the FormData build_update is called on
    updates,        \* the Vec<UpdateSettings> build_update returned
    phase,          \* "form": not called yet, "returned", or "panicked"
    settings,       \* a Settings map, as the entries its iterator yields
    shown,          \* what array_values or format returned
    svOp,           \* the function of SettingsValues that was called
    rlLock,         \* the Mutex of RATE_LIMITS: the thread that holds it, or 0
    rlPc,           \* per thread: where it stands in check_rate_limit
    rlArg,          \* per thread: the identifier it checks
    rlRet,          \* per thread: what check_rate_limit returned
    rlPrior,        \* history: per identifier, the events recorded before
                    \* the concurrent calls
    auditLock,      \* the Mutex of AUDIT_LOGS: the thread that holds it, or 0
    aPc,            \* per thread: where it stands in its audit function
    aOp,            \* per thread: the audit function it calls
    copies,         \* history: how many snapshots have been returned
    plainLimits,    \* RATE_LIMITS as the same calls leave it without sweeps
    plainTokens,    \* CSRF_TOKENS as the same calls leave it without sweeps
    swLast          \* history: the last call, its result with the sweeps
                    \* and its result without them

rlVars == <<limits, rlLast, okLog, rejected>>

csrfVars == <<tokens, csrfLock, csrfLast, validCount, issuedAt>>

threadVars == <<pc, arg, ret, overlap>>

auditVars == <<utc, auditLogs, logged, swept, snapshot>>

uiVars == <<config, storage, is_editing, new_logo_url, new_title, error,
            show_preview, is_uploading, auto_save, is_saving, csrf_token,
            readers, tracked, effectDue>>

layoutVars == <<uiVars, steps, lastEvent>>

updVars == <<form, updates, phase>>

svVars == <<settings, shown, svOp>>

rtVars == <<rlLock, rlPc, rlArg, rlRet, rlPrior>>

atVars == <<auditLock, aPc, aOp, copies>>

swVars == <<plainLimits, plainTokens, swLast>>

moreVars == <<svVars, rtVars, atVars, swVars>>

vars == <<now, rlVars, csrfVars, threadVars, auditVars, layoutVars, updVars,
          moreVars>>

\* what the operations of one service leave alone
notRate == <<csrfVars, threadVars, auditVars, layoutVars, updVars,
             moreVars>>

notCsrf == <<rlVars, threadVars, auditVars, layoutVars, updVars,
             moreVars>>

notThreads == <<rlVars, auditVars, layoutVars, updVars, moreVars>>

notAudit == <<now, rlVars, csrfVars, threadVars, layoutVars,
              updVars, moreVars>>

\* what the layout handlers leave alone: the clocks and the histories of
\* the services
notLayout == <<now, utc, rlLast, okLog, rejected, csrfLock, csrfLast,
               validCount, issuedAt, threadVars, logged, swept, snapshot,
               updVars, moreVars>>

\* what build_update leaves alone: it reads its form and returns a vector
notUpdate == <<now, rlVars, csrfVars, threadVars, auditVars, layoutVars,
               moreVars>>

\* what array_values and format leave alone: they read the map they are
\* given
notSettings == <<now, rlVars, csrfVars, threadVars, auditVars, layoutVars,
                 updVars, rtVars, atVars, swVars>>

\* what a thread in check_rate_limit leaves alone
notRateThreads == <<now, rlLast, okLog, rejected, csrfVars, threadVars,
                    auditVars, layoutVars, updVars, svVars, atVars, swVars>>

\* what a thread in an audit function leaves alone
notAuditThreads == <<now, rlVars, csrfVars, threadVars, layoutVars, updVars,
                     svVars, rtVars, swVars>>

\* what the calls that are compared with and without sweeps leave alone
notSweeps == <<rlLast, okLog, rejected, csrfLock, csrfLast, validCount,
               issuedAt, threadVars, auditVars, layoutVars, updVars, svVars,
               rtVars, atVars>>

(***************************************************************************)
(* Program constants (src/utils/security.rs:14-16).                        *)
(***************************************************************************)
RATE_LIMIT_WINDOW == 60

MAX_REQUESTS_PER_WINDOW == 60

CSRF_TOKEN_EXPIRY == 3600

\* src/utils/audit.rs:7
MAX_AUDIT_LOGS == 1000

\* src/components/layout/config.rs:12-14
MAX_TITLE_LENGTH == 100

MAX_FILE_SIZE == 5 * 1024 * 1024

ALLOWED_IMAGE_TYPES == {"image/jpeg", "image/png", "image/svg+xml", "image/gif"}

(***************************************************************************)
(* Bounds of the model.                                                    *)
(***************************************************************************)
\* the longest Array value of a form
MaxArrayLen == 11

\* the most if/then pairs of an Expression value of a form
MaxIfThens == 10

\* the clock advances at most this many times in the rate-limiter spec
MaxRateTicks == 3

\* an identifier other than Subject is checked only while it holds fewer
\* than this many recorded events
MaxOther == 2

\* the clock advances at most this many times in the token-store specs
MaxCsrfTicks == 4

\* the threads that call validate_csrf_token concurrently
NumThreads == 2

\* log_audit is called at most this many times in the audit-log spec
MaxLogged == 1002

\* the wall clock advances at most this many days in the audit-log spec
MaxDays == 1

\* at most this many handlers and effects run in the layout spec
MaxSteps == 6

\* at most this many sweeps of the audit log remove an entry
MaxSweeps == 1

\* how far from empty and from full the log may be when a sweep, a reader
\* or a change of day is interleaved
EdgeWidth == 1

\* One clock step of the rate-limiter specification: half a window, so that
\* events recorded at two different instants share a window and the events
\* of the older instant leave it first.
RateTick == RATE_LIMIT_WINDOW \div 2

\* The identifier that is driven to capacity, and the identifiers it is
\* interleaved with.
Subject == "test_client"

Identifiers == {"test_client", "layout_config_save"}

(***************************************************************************)
(* Partial maps (HashMap).                                                 *)
(***************************************************************************)
MapRemove(m, k) == [x \in (DOMAIN m) \ {k} |-> m[x]]

MapInsert(m, k, v) == [x \in (DOMAIN m) \cup {k} |-> IF x = k THEN v ELSE m[x]]

EmptyMap == [x \in {} |-> 0]

(***************************************************************************)
(* RateLimiter (src/utils/security.rs:67-96).                              *)
(***************************************************************************)
\* requests.retain(|&time| now.duration_since(time) < RATE_LIMIT_WINDOW)
Retain(requests, t) ==
    SelectSeq(requests, LAMBDA time : t - time < RATE_LIMIT_WINDOW)

\* requests.len() >= MAX_REQUESTS_PER_WINDOW
AtCapacityOffByOne(requests) == Len(requests) > MAX_REQUESTS_PER_WINDOW

AtCapacityEarly(requests) == Len(requests) >= MAX_REQUESTS_PER_WINDOW - 1

AtCapacity(requests) == Len(requests) >= MAX_REQUESTS_PER_WINDOW

\* The mutant of check_rate_limit that records the rejected attempt too.
check_rate_limit_recording(lim, identifier, t) ==
    IF identifier \in DOMAIN lim
    THEN LET requests == Retain(lim[identifier], t) IN
         [limits |-> [lim EXCEPT ![identifier] = Append(requests, t)],
          result |-> IF AtCapacity(requests) THEN "Err" ELSE "Ok"]
    ELSE [limits |-> MapInsert(lim, identifier, <<t>>), result |-> "Ok"]

\* The mutant of check_rate_limit that keeps one entry: a new identifier
\* replaces the map.
check_rate_limit_single_entry(lim, identifier, t) ==
    IF identifier \in DOMAIN lim
    THEN LET requests == Retain(lim[identifier], t) IN
         IF AtCapacity(requests)
         THEN [limits |-> [lim EXCEPT ![identifier] = requests],
               result |-> "Err"]
         ELSE [limits |-> [lim EXCEPT ![identifier] = Append(requests, t)],
               result |-> "Ok"]
    ELSE [limits |-> MapInsert(EmptyMap, identifier, <<t>>), result |-> "Ok"]

\* The mutant of check_rate_limit in which a rejected attempt restarts the
\* window of the recorded events.
check_rate_limit_restarting(lim, identifier, t) ==
    IF identifier \in DOMAIN lim
    THEN LET requests == Retain(lim[identifier], t) IN
         IF AtCapacity(requests)
         THEN [limits |-> [lim EXCEPT ![identifier] =
                              [n \in 1 .. Len(requests) |-> t]],
               result |-> "Err"]
         ELSE [limits |-> [lim EXCEPT ![identifier] = Append(requests, t)],
               result |-> "Ok"]
    ELSE [limits |-> MapInsert(lim, identifier, <<t>>), result |-> "Ok"]

\* The mutant of check_rate_limit that puts the new event in front.
check_rate_limit_prepending(lim, identifier, t) ==
    IF identifier \in DOMAIN lim
    THEN LET requests == Retain(lim[identifier], t) IN
         IF AtCapacity(requests)
         THEN [limits |-> [lim EXCEPT ![identifier] = requests],
               result |-> "Err"]
         ELSE [limits |-> [lim EXCEPT ![identifier] = <<t>> \o requests],
               result |-> "Ok"]
    ELSE [limits |-> MapInsert(lim, identifier, <<t>>), result |-> "Ok"]

\* check_rate_limit(identifier) at instant t on the map lim: the map it
\* leaves and the result it returns.
check_rate_limit(lim, identifier, t) ==
    IF identifier \in DOMAIN lim
    THEN LET requests == Retain(lim[identifier], t) IN
         IF AtCapacity(requests)
         THEN [limits |-> [lim EXCEPT ![identifier] = requests],
               result |-> "Err"]
         ELSE [limits |-> [lim EXCEPT ![identifier] = Append(requests, t)],
               result |-> "Ok"]
    ELSE [limits |-> MapInsert(lim, identifier, <<t>>), result |-> "Ok"]

\* The mutant of cleanup_rate_limits that empties the map.
cleanup_rate_limits_clearing(lim, t) == [i \in {} |-> << >>]

\* The mutant of cleanup_rate_limits that keeps the emptied lists.
cleanup_rate_limits_keeping_empty(lim, t) ==
    [i \in DOMAIN lim |-> Retain(lim[i], t)]

\* cleanup_rate_limits() at instant t on the map lim.
cleanup_rate_limits(lim, t) ==
    LET keep == {i \in DOMAIN lim : Retain(lim[i], t) # << >>} IN
    [i \in keep |-> Retain(lim[i], t)]

\* The Ok results of the window (t-60, t], as the claims count them.
InWindow(times, t) ==
    SelectSeq(times, LAMBDA time : time > t - RATE_LIMIT_WINDOW /\ time <= t)

NoCall == [op |-> "init", id |-> "-", res |-> "-", before |-> 0]

RlInit ==
    /\ limits = EmptyMap
    /\ rlLast = NoCall
    /\ okLog = [i \in Identifiers |-> << >>]
    /\ rejected = {}

CheckRateLimit(identifier) ==
    /\ IF identifier = Subject \/ identifier \notin DOMAIN limits
       THEN TRUE
       ELSE Len(limits[identifier]) < MaxOther
    /\ LET r == check_rate_limit(limits, identifier, now) IN
        /\ limits' = r.limits
        /\ rlLast' = [op |-> "check", id |-> identifier, res |-> r.result,
                      before |-> Len(okLog[identifier])]
        /\ okLog' = IF r.result = "Ok"
                    THEN [okLog EXCEPT ![identifier] = Append(@, now)]
                    ELSE okLog
        /\ rejected' = IF r.result = "Err"
                       THEN rejected \cup {identifier}
                       ELSE rejected
    /\ UNCHANGED <<now, notRate>>

CleanupRateLimits ==
    /\ limits' = cleanup_rate_limits(limits, now)
    /\ rlLast' = [op |-> "cleanup", id |-> "-", res |-> "-", before |-> 0]
    /\ UNCHANGED <<now, okLog, rejected, notRate>>

RateTickStep ==
    /\ now < MaxRateTicks * RateTick
    /\ now' = now + RateTick
    /\ rlLast' = [op |-> "tick", id |-> "-", res |-> "-", before |-> 0]
    /\ okLog' = [i \in Identifiers |-> InWindow(okLog[i], now')]
    /\ UNCHANGED <<limits, rejected, notRate>>

(***************************************************************************)
(* CsrfTokenStore (src/utils/security.rs:36-64).                           *)
(***************************************************************************)
\* One clock step of the token-store specifications: a third of the expiry,
\* so that a token's age takes the value 3600 exactly.
CsrfTick == CSRF_TOKEN_EXPIRY \div 3

\* The strings thread_rng() is taken to draw.
Tokens == {"tokA", "tokB"}

Threads == 1 .. NumThreads

\* created_at.elapsed() < CSRF_TOKEN_EXPIRY
UnexpiredInclusive(created_at, t) == t - created_at <= CSRF_TOKEN_EXPIRY

Unexpired(created_at, t) == t - created_at < CSRF_TOKEN_EXPIRY

\* generate_csrf_token() drawing token at instant t.
generate_csrf_token(toks, token, t) == MapInsert(toks, token, t)

\* The mutant of validate_csrf_token that leaves a validated token in place.
validate_csrf_token_keeping(toks, token, t) ==
    IF token \in DOMAIN toks /\ Unexpired(toks[token], t)
    THEN [tokens |-> toks, result |-> TRUE]
    ELSE [tokens |-> toks, result |-> FALSE]

\* The mutant of validate_csrf_token that evicts an expired token it finds.
validate_csrf_token_evicting(toks, token, t) ==
    IF token \in DOMAIN toks
    THEN [tokens |-> MapRemove(toks, token),
          result |-> Unexpired(toks[token], t)]
    ELSE [tokens |-> toks, result |-> FALSE]

\* validate_csrf_token(token) at instant t on the map toks: the map it
\* leaves and the result it returns.
validate_csrf_token(toks, token, t) ==
    IF token \in DOMAIN toks /\ Unexpired(toks[token], t)
    THEN [tokens |-> MapRemove(toks, token), result |-> TRUE]
    ELSE [tokens |-> toks, result |-> FALSE]

\* cleanup_expired_csrf_tokens() at instant t on the map toks.
cleanup_expired_csrf_tokens(toks, t) ==
    [k \in {x \in DOMAIN toks : Unexpired(toks[x], t)} |-> toks[k]]

\* CSRF_TOKENS.lock(): the Mutex is granted when no thread holds it.
LockGrantedAlways(holder) == TRUE

LockGranted(holder) == holder = 0

NoOp == [op |-> "init", token |-> "-", res |-> FALSE]

CsrfInit ==
    /\ tokens = EmptyMap
    /\ csrfLock = 0
    /\ csrfLast = NoOp
    /\ validCount = [k \in Tokens |-> 0]
    /\ issuedAt = [k \in Tokens |-> -1]

ThreadInit ==
    /\ pc = [th \in Threads |-> "idle"]
    /\ arg = [th \in Threads |-> "-"]
    /\ ret = [th \in Threads |-> FALSE]
    /\ overlap = FALSE

GenerateCsrfToken(token) ==
    /\ LockGranted(csrfLock)
    /\ tokens' = generate_csrf_token(tokens, token, now)
    /\ csrfLast' = [op |-> "generate", token |-> token, res |-> FALSE]
    /\ validCount' = [validCount EXCEPT ![token] = 0]
    /\ issuedAt' = [issuedAt EXCEPT ![token] = now]
    /\ UNCHANGED <<now, csrfLock, notCsrf>>

ValidateCsrfToken(token) ==
    /\ LockGranted(csrfLock)
    /\ LET r == validate_csrf_token(tokens, token, now) IN
        /\ tokens' = r.tokens
        /\ csrfLast' = [op |-> "validate", token |-> token, res |-> r.result]
        /\ validCount' = IF r.result
                         THEN [validCount EXCEPT ![token] = @ + 1]
                         ELSE validCount
    /\ UNCHANGED <<now, csrfLock, issuedAt, notCsrf>>

CleanupExpiredCsrfTokens ==
    /\ LockGranted(csrfLock)
    /\ tokens' = cleanup_expired_csrf_tokens(tokens, now)
    /\ csrfLast' = [op |-> "cleanup", token |-> "-", res |-> FALSE]
    /\ UNCHANGED <<now, csrfLock, validCount, issuedAt, notCsrf>>

CsrfTickStep ==
    /\ now < MaxCsrfTicks * CsrfTick
    /\ now' = now + CsrfTick
    /\ csrfLast' = [op |-> "tick", token |-> "-", res |-> FALSE]
    /\ UNCHANGED <<tokens, csrfLock, validCount, issuedAt, notCsrf>>

(***************************************************************************)
(* validate_csrf_token line by line, for calls that run on several         *)
(* threads at once.  The MutexGuard taken at line 50 is dropped when the   *)
(* function returns.                                                       *)
(***************************************************************************)
InFlight(th) == pc[th] \notin {"idle", "done"}

\* a thread enters validate_csrf_token(token)
Call(th, token) ==
    /\ pc[th] = "idle"
    /\ pc' = [pc EXCEPT ![th] = "lock"]
    /\ arg' = [arg EXCEPT ![th] = token]
    /\ overlap' = (overlap \/ \E o \in Threads \ {th} :
                                  InFlight(o) /\ arg[o] = token)
    /\ UNCHANGED <<now, csrfVars, ret, notThreads>>

\* line 50: let mut tokens = CSRF_TOKENS.lock().unwrap();
Acquire(th) ==
    /\ pc[th] = "lock"
    /\ LockGranted(csrfLock)
    /\ csrfLock' = th
    /\ pc' = [pc EXCEPT ![th] = "get"]
    /\ UNCHANGED <<now, tokens, csrfLast, validCount, issuedAt, arg, ret,
                   overlap, notThreads>>

\* lines 51-52: tokens.get(token) and the expiry test
Lookup(th) ==
    /\ pc[th] = "get"
    /\ pc' = [pc EXCEPT ![th] =
                IF arg[th] \in DOMAIN tokens
                   /\ Unexpired(tokens[arg[th]], now)
                THEN "remove" ELSE "return_false"]
    /\ UNCHANGED <<now, csrfVars, arg, ret, overlap, notThreads>>

\* line 53: tokens.remove(token);
Remove(th) ==
    /\ pc[th] = "remove"
    /\ tokens' = MapRemove(tokens, arg[th])
    /\ pc' = [pc EXCEPT ![th] = "return_true"]
    /\ UNCHANGED <<now, csrfLock, csrfLast, validCount, issuedAt, arg, ret,
                   overlap, notThreads>>

\* lines 54 and 57: return, which drops the guard
Return(th) ==
    /\ pc[th] \in {"return_true", "return_false"}
    /\ LET result == (pc[th] = "return_true") IN
        /\ ret' = [ret EXCEPT ![th] = result]
        /\ csrfLast' = [op |-> "validate", token |-> arg[th], res |-> result]
        /\ validCount' = IF result
                         THEN [validCount EXCEPT ![arg[th]] = @ + 1]
                         ELSE validCount
    /\ csrfLock' = IF csrfLock = th THEN 0 ELSE csrfLock
    /\ pc' = [pc EXCEPT ![th] = "done"]
    /\ UNCHANGED <<now, tokens, issuedAt, arg, overlap, notThreads>>

\* a token is issued before the calls that race for it begin
IssueBeforeCalls(token) ==
    /\ \A th \in Threads : pc[th] = "idle"
    /\ GenerateCsrfToken(token)

(***************************************************************************)
(* AuditLog (src/utils/audit.rs:35-68).                                    *)
(***************************************************************************)
\* logs.len() >= MAX_AUDIT_LOGS
AuditFullOffByOne(logs) == Len(logs) > MAX_AUDIT_LOGS

AuditFull(logs) == Len(logs) >= MAX_AUDIT_LOGS

\* logs.pop_front()
PopBack(logs) == SubSeq(logs, 1, Len(logs) - 1)

PopFront(logs) == Tail(logs)

\* The AuditLog log_audit builds at wall-clock time t.
AuditEntry(t, action, user, details, ip_address, success) ==
    [timestamp |-> t, action |-> action, user |-> user, details |-> details,
     ip_address |-> ip_address, success |-> success]

\* log_audit(..) appending the entry log to the deque logs.
log_audit(logs, log) ==
    Append(IF AuditFull(logs) THEN PopFront(logs) ELSE logs, log)

\* get_audit_logs() on the deque logs.
get_audit_logs(logs) == [i \in 1 .. Len(logs) |-> logs[i]]

\* cleanup_audit_logs(max_age_days) at wall-clock time t.
cleanup_audit_logs(logs, max_age_days, t) ==
    LET cutoff == t - max_age_days IN
    SelectSeq(logs, LAMBDA log : log.timestamp > cutoff)

\* The sweep, the readers and the change of day are interleaved with the
\* appends while the log is nearly empty or nearly full.
NearEdge(logs) ==
    \/ Len(logs) <= EdgeWidth
    \/ Len(logs) >= MAX_AUDIT_LOGS - EdgeWidth

\* the max_age_days the sweep is called with
AgeDays == {0, 1}

AuditInit ==
    /\ utc = 0
    /\ auditLogs = << >>
    /\ logged = 0
    /\ swept = 0
    /\ snapshot = << >>

\* log_audit as the rotation test calls it: user_<i> for the i-th call.
LogAudit ==
    /\ logged < MaxLogged
    /\ auditLogs' = log_audit(auditLogs,
                        AuditEntry(utc, "ConfigUpdate", logged, "Test log",
                                   "None", TRUE))
    /\ logged' = logged + 1
    /\ UNCHANGED <<utc, swept, snapshot, notAudit>>

GetAuditLogs ==
    /\ NearEdge(auditLogs)
    /\ snapshot' = get_audit_logs(auditLogs)
    /\ UNCHANGED <<utc, auditLogs, logged, swept, notAudit>>

CleanupAuditLogs(max_age_days) ==
    /\ NearEdge(auditLogs)
    /\ swept < MaxSweeps
    /\ auditLogs' = cleanup_audit_logs(auditLogs, max_age_days, utc)
    /\ swept' = IF auditLogs' # auditLogs THEN swept + 1 ELSE swept
    /\ UNCHANGED <<utc, logged, snapshot, notAudit>>

UtcTickStep ==
    /\ NearEdge(auditLogs)
    /\ utc < MaxDays
    /\ utc' = utc + 1
    /\ UNCHANGED <<auditLogs, logged, swept, snapshot, notAudit>>

(***************************************************************************)
(* Layout configuration (src/components/layout/config.rs).                 *)
(***************************************************************************)
LayoutIds ==
    {"layout_config_save", "layout_config_upload", "layout_config_reset"}

\* LayoutConfig::default()
DefaultConfig == [logo_url |-> "/logo.svg", title |-> "Stalwart Management"]

\* A title of MAX_TITLE_LENGTH + 1 bytes.
LongTitle ==
    "xxxxxxxxxxxxxxxxxxxxxxxxxxxxxxxxxxxxxxxxxxxxxxxxxxxxxxxxxxxxxxxxxxxxxxxxxxxxxxxxxxxxxxxxxxxxxxxxxxxxx"

\* what the user types into the title and the logo fields
TitleInputs == {"", "A&B", LongTitle}

LogoInputs == {"", "https://example.com/logo.png", "javascript:alert(1)"}

\* the data URL a FileReader yields for an uploaded image
DataUrl == "data:image/png;base64,AAAA"

\* the files a change event of the file input carries (none, or type, size)
NoFile == [type |-> "-", size |-> 0]

FileInputs ==
    {NoFile,
     [type |-> "image/png", size |-> 1024],
     [type |-> "application/pdf", size |-> 1024],
     [type |-> "image/png", size |-> MAX_FILE_SIZE + 1]}

\* validate_url on the strings of the model: a data:image/ URL is accepted,
\* and of the others URL_REGEX matches only the one with a host name
\* ("/logo.svg" has none, "javascript:alert(1)" has no dotted host).
validate_url(url) ==
    \/ url = DataUrl
    \/ url = "https://example.com/logo.png"

\* sanitize_input: encode_text escapes &, < and >; of the strings of the
\* model only "A&B" holds one of them.
sanitize_input(input) == IF input = "A&B" THEN "A&amp;B" ELSE input

\* LayoutConfig::validate: "Ok" or the error message
validate(cfg) ==
    IF cfg.title = "" THEN "Title cannot be empty"
    ELSE IF Len(cfg.title) > MAX_TITLE_LENGTH
         THEN "Title must be less than 100 characters"
    ELSE IF cfg.logo_url # "" /\ ~validate_url(cfg.logo_url)
         THEN "Invalid logo URL"
    ELSE "Ok"

\* log_audit as the handlers call it: user "user", no address
Audit(logs, action, details, success) ==
    log_audit(logs, AuditEntry(utc, action, "user", details, "None", success))

\* A signal was set: the auto-save effect is due if it read that signal in
\* its last run.
Notified(signals) == effectDue \/ (signals \cap tracked # {})

\* The component before it is mounted.
UiInit ==
    /\ config = DefaultConfig
    /\ storage = DefaultConfig
    /\ is_editing = FALSE
    /\ new_logo_url = DefaultConfig.logo_url
    /\ new_title = DefaultConfig.title
    /\ error = ""
    /\ show_preview = FALSE
    /\ is_uploading = FALSE
    /\ auto_save = TRUE
    /\ is_saving = FALSE
    /\ readers = 0
    /\ tracked = {"auto_save", "is_editing"}
    /\ effectDue = FALSE
    /\ steps = 0
    /\ lastEvent = [handler |-> "mount", attempt |-> FALSE]

Unmounted == UiInit /\ csrf_token = "-"

\* what a handler records about itself
Ran(handler, attempt) ==
    /\ steps < MaxSteps
    /\ steps' = steps + 1
    /\ lastEvent' = [handler |-> handler, attempt |-> attempt]

\* An event handler or callback runs once the effects that the handler
\* before it made due have run.
Event(handler, attempt) == ~effectDue /\ Ran(handler, attempt)

\* lines 68-112: the auto-save effect
AutoSaveEffect ==
    /\ effectDue
    /\ effectDue' = FALSE
    /\ is_saving' = FALSE
    /\ IF auto_save /\ is_editing
       THEN LET r == check_rate_limit(limits, "layout_config_save", now)
                logo_url == new_logo_url
                title == sanitize_input(new_title)
                new_config == [logo_url |-> IF logo_url = "" THEN "/logo.svg"
                                            ELSE logo_url,
                               title |-> title]
            IN  /\ limits' = r.limits
                /\ IF r.result = "Err"
                   THEN /\ error' = "Rate limit exceeded"
                        /\ tracked' = {"auto_save", "is_editing"}
                        /\ Ran("auto_save", TRUE)
                        /\ UNCHANGED <<config, storage, auditLogs>>
                   ELSE /\ tracked' = {"auto_save", "is_editing",
                                       "new_logo_url", "new_title"}
                        /\ IF title = ""
                           THEN /\ Ran("auto_save", FALSE)
                                /\ UNCHANGED <<config, storage, error,
                                               auditLogs>>
                           ELSE /\ Ran("auto_save", TRUE)
                                /\ IF validate(new_config) = "Ok"
                                   THEN /\ config' = new_config
                                        /\ storage' = new_config
                                        /\ error' = ""
                                        /\ auditLogs' = Audit(auditLogs,
                                             "ConfigUpdate",
                                             "Updated layout config: title="
                                                \o title, TRUE)
                                   ELSE /\ error' = validate(new_config)
                                        /\ auditLogs' = Audit(auditLogs,
                                             "ConfigUpdate",
                                             "Failed to update layout config: "
                                                \o validate(new_config), FALSE)
                                        /\ UNCHANGED <<config, storage>>
       ELSE /\ tracked' = IF auto_save THEN {"auto_save", "is_editing"}
                          ELSE {"auto_save"}
            /\ Ran("auto_save", FALSE)
            /\ UNCHANGED <<limits, config, storage, error, auditLogs>>
    /\ UNCHANGED <<is_editing, new_logo_url, new_title, show_preview,
                   is_uploading, auto_save, csrf_token, readers, tokens,
                   notLayout>>

\* lines 128-144: handle_save (the button is shown while editing and is
\* disabled while uploading); lines 122-126 store the config it sets
HandleSave ==
    /\ is_editing /\ ~is_uploading
    /\ Event("handle_save", TRUE)
    /\ IF new_logo_url = ""
       THEN /\ error' = "Logo URL cannot be empty"
            /\ UNCHANGED <<config, storage, is_editing, show_preview,
                           effectDue>>
       ELSE IF new_title = ""
       THEN /\ error' = "Title cannot be empty"
            /\ UNCHANGED <<config, storage, is_editing, show_preview,
                           effectDue>>
       ELSE /\ error' = ""
            /\ config' = [logo_url |-> new_logo_url, title |-> new_title]
            /\ storage' = config'
            /\ is_editing' = FALSE
            /\ show_preview' = FALSE
            /\ effectDue' = Notified({"is_editing"})
    /\ UNCHANGED <<new_logo_url, new_title, is_uploading, auto_save,
                   is_saving, csrf_token, readers, tracked, limits, tokens,
                   auditLogs, notLayout>>

\* lines 146-157: handle_preview
HandlePreview ==
    /\ is_editing
    /\ Event("handle_preview", FALSE)
    /\ IF new_logo_url = ""
       THEN error' = "Logo URL cannot be empty" /\ UNCHANGED show_preview
       ELSE IF new_title = ""
       THEN error' = "Title cannot be empty" /\ UNCHANGED show_preview
       ELSE error' = "" /\ show_preview' = ~show_preview
    /\ UNCHANGED <<config, storage, is_editing, new_logo_url, new_title,
                   is_uploading, auto_save, is_saving, csrf_token, readers,
                   tracked, effectDue, limits, tokens, auditLogs, notLayout>>

\* lines 159-226: handle_file_upload, up to reader.read_as_data_url
HandleFileUpload(file) ==
    /\ is_editing
    /\ LET r == check_rate_limit(limits, "layout_config_upload", now) IN
        /\ limits' = r.limits
        /\ IF r.result = "Err"
           THEN /\ error' = "Rate limit exceeded"
                /\ Event("handle_file_upload", TRUE)
                /\ UNCHANGED <<is_uploading, readers, auditLogs>>
           ELSE IF file = NoFile
           THEN /\ Event("handle_file_upload", FALSE)
                /\ UNCHANGED <<error, is_uploading, readers, auditLogs>>
           ELSE IF file.type \notin ALLOWED_IMAGE_TYPES
           THEN /\ error' =
                     "Invalid file type. Please upload a JPEG, PNG, SVG, or GIF image."
                /\ auditLogs' = Audit(auditLogs, "FileUpload",
                                   "Attempted to upload invalid file type",
                                   FALSE)
                /\ Event("handle_file_upload", TRUE)
                /\ UNCHANGED <<is_uploading, readers>>
           ELSE IF file.size > MAX_FILE_SIZE
           THEN /\ error' = "File size must be less than 5MB"
                /\ auditLogs' = Audit(auditLogs, "FileUpload",
                                   "Attempted to upload file exceeding size limit",
                                   FALSE)
                /\ Event("handle_file_upload", TRUE)
                /\ UNCHANGED <<is_uploading, readers>>
           ELSE /\ is_uploading' = TRUE
                /\ readers' = readers + 1
                /\ Event("handle_file_upload", FALSE)
                /\ UNCHANGED <<error, auditLogs>>
    /\ UNCHANGED <<config, storage, is_editing, new_logo_url, new_title,
                   show_preview, auto_save, is_saving, csrf_token, tracked,
                   effectDue, tokens, notLayout>>

\* lines 198-222: the onload callback of a FileReader; the result is a
\* string (the data URL) or it is not
ReaderOnload(is_string) ==
    /\ readers > 0
    /\ readers' = readers - 1
    /\ Event("reader_onload", TRUE)
    /\ IF is_string
       THEN /\ new_logo_url' = DataUrl
            /\ error' = ""
            /\ auditLogs' = Audit(auditLogs, "FileUpload",
                               "Successfully uploaded new logo", TRUE)
            /\ effectDue' = Notified({"new_logo_url"})
       ELSE /\ error' = "Failed to read file"
            /\ auditLogs' = Audit(auditLogs, "FileUpload",
                               "Failed to read uploaded file", FALSE)
            /\ UNCHANGED <<new_logo_url, effectDue>>
    /\ is_uploading' = FALSE
    /\ UNCHANGED <<config, storage, is_editing, new_title, show_preview,
                   auto_save, is_saving, csrf_token, tracked, limits, tokens,
                   notLayout>>

\* The mutant of handle_reset that resets whatever check_rate_limit returns.
HandleResetRegardless(token) ==
    LET r == check_rate_limit(limits, "layout_config_reset", now) IN
    /\ limits' = r.limits
    /\ Event("handle_reset", TRUE)
    /\ config' = DefaultConfig
    /\ storage' = DefaultConfig
    /\ new_logo_url' = DefaultConfig.logo_url
    /\ new_title' = DefaultConfig.title
    /\ error' = IF r.result = "Err" THEN "Rate limit exceeded" ELSE ""
    /\ show_preview' = FALSE
    /\ tokens' = generate_csrf_token(tokens, token, now)
    /\ csrf_token' = token
    /\ auditLogs' = Audit(auditLogs, "ResetConfig",
                       "Reset layout configuration to default", TRUE)
    /\ effectDue' = Notified({"new_logo_url", "new_title"})
    /\ UNCHANGED <<is_editing, is_uploading, auto_save, is_saving, readers,
                   tracked, notLayout>>

\* lines 228-248: handle_reset; lines 122-126 store the config it sets
HandleReset(token) ==
    LET r == check_rate_limit(limits, "layout_config_reset", now) IN
    /\ limits' = r.limits
    /\ Event("handle_reset", TRUE)
    /\ IF r.result = "Err"
       THEN /\ error' = "Rate limit exceeded"
            /\ UNCHANGED <<config, storage, new_logo_url, new_title,
                           show_preview, csrf_token, tokens, auditLogs,
                           effectDue>>
       ELSE /\ config' = DefaultConfig
            /\ storage' = DefaultConfig
            /\ new_logo_url' = DefaultConfig.logo_url
            /\ new_title' = DefaultConfig.title
            /\ error' = ""
            /\ show_preview' = FALSE
            /\ tokens' = generate_csrf_token(tokens, token, now)
            /\ csrf_token' = token
            /\ auditLogs' = Audit(auditLogs, "ResetConfig",
                               "Reset layout configuration to default", TRUE)
            /\ effectDue' = Notified({"new_logo_url", "new_title"})
    /\ UNCHANGED <<is_editing, is_uploading, auto_save, is_saving, readers,
                   tracked, notLayout>>

\* lines 277-285: the Edit / Cancel button
ToggleEdit ==
    /\ Event("toggle_edit", FALSE)
    /\ is_editing' = ~is_editing
    /\ IF ~is_editing'
       THEN /\ new_logo_url' = config.logo_url
            /\ new_title' = config.title
            /\ error' = ""
            /\ show_preview' = FALSE
            /\ effectDue' = Notified({"is_editing", "new_logo_url",
                                      "new_title"})
       ELSE /\ effectDue' = Notified({"is_editing"})
            /\ UNCHANGED <<new_logo_url, new_title, error, show_preview>>
    /\ UNCHANGED <<config, storage, is_uploading, auto_save, is_saving,
                   csrf_token, readers, tracked, limits, tokens, auditLogs,
                   notLayout>>

\* line 313: on:input of the logo field
InputLogoUrl(url) ==
    /\ is_editing
    /\ Event("input_logo_url", FALSE)
    /\ new_logo_url' = url
    /\ effectDue' = Notified({"new_logo_url"})
    /\ UNCHANGED <<config, storage, is_editing, new_title, error,
                   show_preview, is_uploading, auto_save, is_saving,
                   csrf_token, readers, tracked, limits, tokens, auditLogs,
                   notLayout>>

\* line 338: on:input of the title field
InputTitle(title) ==
    /\ is_editing
    /\ Event("input_title", FALSE)
    /\ new_title' = title
    /\ effectDue' = Notified({"new_title"})
    /\ UNCHANGED <<config, storage, is_editing, new_logo_url, error,
                   show_preview, is_uploading, auto_save, is_saving,
                   csrf_token, readers, tracked, limits, tokens, auditLogs,
                   notLayout>>

\* line 443: on:change of the auto-save checkbox
ToggleAutoSave ==
    /\ Event("toggle_auto_save", FALSE)
    /\ auto_save' = ~auto_save
    /\ effectDue' = Notified({"auto_save"})
    /\ UNCHANGED <<config, storage, is_editing, new_logo_url, new_title,
                   error, show_preview, is_uploading, is_saving, csrf_token,
                   readers, tracked, limits, tokens, auditLogs, notLayout>>

(***************************************************************************)
(* Configuration updates (src/pages/config/mod.rs).                        *)
(*                                                                         *)
(* A String is a TLA+ string, a Vec a sequence, an Option the empty or the  *)
(* one-element sequence.  FormData.values and Schema.fields are sequences   *)
(* of entries with distinct keys, in the order the program iterates them.   *)
(***************************************************************************)
None == << >>

Some(x) == <<x>>

\* lines 39-53: enum UpdateSettings
Delete(keys) == [type |-> "Delete", keys |-> keys]

Clear(prefix, filter) == [type |-> "Clear", prefix |-> prefix, filter |-> filter]

Insert(prefix, values, assert_empty) ==
    [type |-> "Insert", prefix |-> prefix, values |-> values,
     assert_empty |-> assert_empty]

\* SchemaType
Record(prefix) == [kind |-> "Record", prefix |-> prefix]

Entry(prefix) == [kind |-> "Entry", prefix |-> prefix]

List == [kind |-> "List"]

\* FormValue
Value(value) == [tag |-> "Value", value |-> value]

Array(values) == [tag |-> "Array", values |-> values]

Expression(if_thens, else_) ==
    [tag |-> "Expression", if_thens |-> if_thens, else_ |-> else_]

IfThen(if_, then_) == [if_ |-> if_, then_ |-> then_]

\* FormData.values.get(id)
HasValue(f, id) == \E i \in 1 .. Len(f.values) : f.values[i].key = id

GetValue(f, id) ==
    f.values[CHOOSE i \in 1 .. Len(f.values) : f.values[i].key = id].value

\* FormData::value_as_str: the string of a Value entry
value_as_str(f, id) ==
    IF HasValue(f, id) /\ GetValue(f, id).tag = "Value"
    THEN Some(GetValue(f, id).value)
    ELSE None

\* Expression::is_empty: no if/then pair and an empty else
expr_is_empty(expr) == expr.if_thens = << >> /\ expr.else_ = ""

\* a FormValue that holds nothing
form_value_is_empty(v) ==
    CASE v.tag = "Value" -> v.value = ""
      [] v.tag = "Array" -> v.values = << >>
      [] v.tag = "Expression" -> expr_is_empty(v)

\* FormData::value_is_empty: the value is absent or holds nothing
value_is_empty(f, id) ==
    ~HasValue(f, id) \/ form_value_is_empty(GetValue(f, id))

\* Field::is_multivalue
is_multivalue(field) == field.multivalue

\* str::starts_with(char)
starts_with(s, c) == Len(s) > 0 /\ Head(s) = c

\* usize::to_string: the decimal digits of n
Digit(d) == SubSeq("0123456789", d + 1, d + 1)

RECURSIVE to_string(_)
to_string(n) ==
    IF n < 10 THEN Digit(n) ELSE to_string(n \div 10) \o Digit(n % 10)

\* format!("{idx:0>pad_len$}"): idx, filled with '0' on the left up to
\* pad_len characters; a longer idx is left as it is
RECURSIVE ZeroFill(_, _)
ZeroFill(s, pad_len) ==
    IF Len(s) >= pad_len THEN s ELSE ZeroFill("0" \o s, pad_len)

Padded(idx, pad_len) == ZeroFill(to_string(idx), pad_len)

\* The forms build_update is called on.  Array elements and expression
\* parts are distinct letters, so that their order shows in the result.
Letter(i) == SubSeq("abcdefghijklmnopqrstuvwxyz", i, i)

ArrayOf(n) == Array([i \in 1 .. n |-> Letter(i)])

ExpressionOf(n, else_) ==
    Expression([i \in 1 .. n |-> IfThen("c" \o Letter(i), "t" \o Letter(i))],
               else_)

\* the values of the form key "k": every variant, empty and not
KValues ==
    {Value(""), Value("x"), Array(<<"">>)}
        \cup {ArrayOf(n) : n \in 0 .. MaxArrayLen}
        \cup {ExpressionOf(n, else_) : n \in 0 .. MaxIfThens,
                                       else_ \in {"", "e"}}

\* the values of the form key "m"
MValues ==
    {Value(""), Value("y"), Array(<< >>), Array(<<"p", "q">>),
     Expression(<< >>, "")}

Item(key, value) == [key |-> key, value |-> value]

\* the entries of the form under the keys of the schema's fields
FieldEntries ==
    {<< >>}
        \cup {<<Item("k", v)>> : v \in KValues}
        \cup {<<Item("m", w)>> : w \in MValues}
        \cup {<<Item("k", v), Item("m", w)>> : v \in KValues, w \in MValues}
        \cup {<<Item("m", w), Item("k", v)>> : v \in KValues, w \in MValues}

\* the entries of the form under the internal keys
InternalEntries ==
    {ids \o vals :
        ids \in {<< >>, <<Item("_id", Value("id1"))>>},
        vals \in {<< >>} \cup {<<Item("_value", v)>> :
                     v \in {Value(""), Value("val"), Array(<<"p", "q">>)}}}

FormValues ==
    {i \o e : i \in InternalEntries, e \in FieldEntries}
        \cup {e \o i : i \in InternalEntries, e \in FieldEntries}

FieldDecl(id, multivalue) == [id |-> id, multivalue |-> multivalue]

Schemas ==
    {[typ |-> typ, fields |-> <<FieldDecl("k", FALSE), FieldDecl("m", TRUE)>>] :
        typ \in {Record("p"), Entry("p")}}
        \cup {[typ |-> List, fields |-> fields] :
                fields \in {<< >>,
                            <<FieldDecl("k", TRUE)>>,
                            <<FieldDecl("k", FALSE)>>,
                            <<FieldDecl("k", FALSE), FieldDecl("m", TRUE)>>,
                            <<FieldDecl("m", TRUE), FieldDecl("k", TRUE)>>,
                            <<FieldDecl("k", FALSE), FieldDecl("m", FALSE)>>}}

Forms ==
    {[schema |-> schema, is_update |-> is_update, values |-> values] :
        schema \in Schemas, is_update \in BOOLEAN, values \in FormValues}

\* no form: build_update is not under way
NoForm == [schema |-> [typ |-> List, fields |-> << >>], is_update |-> FALSE,
           values |-> << >>]

UpdInit ==
    /\ form = NoForm
    /\ updates = << >>
    /\ phase = "none"

\* the Entry schema with assert_empty taken from is_update as it is
EntryUpdatesNoNegation(f) ==
    <<Insert(None, <<<<f.schema.typ.prefix \o "." \o value_as_str(f, "_id")[1],
                       IF value_as_str(f, "_value") = None THEN ""
                       ELSE value_as_str(f, "_value")[1]>>>>,
             f.is_update)>>

\* lines 100-110: the Entry schema
EntryUpdates(f) ==
    <<Insert(None, <<<<f.schema.typ.prefix \o "." \o value_as_str(f, "_id")[1],
                       IF value_as_str(f, "_value") = None THEN ""
                       ELSE value_as_str(f, "_value")[1]>>>>,
             ~f.is_update)>>

\* the scan that clears a multivalue field without marking its id
RECURSIVE ListScanClearOnly(_, _)
ListScanClearOnly(f, n) ==
    IF n = 0 THEN [updates |-> << >>, delete_keys |-> << >>]
    ELSE LET prev == ListScanClearOnly(f, n - 1)
             field == f.schema.fields[n]
         IN  IF is_multivalue(field)
             THEN [updates |-> Append(prev.updates,
                                      Clear(field.id \o ".", None)),
                   delete_keys |-> prev.delete_keys]
             ELSE IF value_is_empty(f, field.id)
             THEN [updates |-> prev.updates,
                   delete_keys |-> Append(prev.delete_keys, field.id)]
             ELSE prev

\* lines 113-124: the scan of the first n fields of a List schema
RECURSIVE ListScan(_, _)
ListScan(f, n) ==
    IF n = 0 THEN [updates |-> << >>, delete_keys |-> << >>]
    ELSE LET prev == ListScan(f, n - 1)
             field == f.schema.fields[n]
         IN  IF is_multivalue(field)
             THEN [updates |-> Append(prev.updates,
                                      Clear(field.id \o ".", None)),
                   delete_keys |-> Append(prev.delete_keys, field.id)]
             ELSE IF value_is_empty(f, field.id)
             THEN [updates |-> prev.updates,
                   delete_keys |-> Append(prev.delete_keys, field.id)]
             ELSE prev

\* assert_empty set on an update instead of on a creation
SchemaPassAssertOnUpdate(f) ==
    IF f.schema.typ.kind = "Record"
    THEN LET prefix == f.schema.typ.prefix
             id == value_as_str(f, "_id")[1]
         IN  [updates |-> IF f.is_update
                          THEN <<Clear(prefix \o "." \o id \o ".", None)>>
                          ELSE << >>,
              insert_prefix |-> Some(prefix \o "." \o id),
              assert_empty |-> f.is_update]
    ELSE LET scan == ListScan(f, Len(f.schema.fields))
         IN  [updates |-> IF ~f.is_update THEN << >>
                          ELSE IF scan.delete_keys # << >>
                          THEN Append(scan.updates, Delete(scan.delete_keys))
                          ELSE scan.updates,
              insert_prefix |-> None,
              assert_empty |-> FALSE]

\* the List schema scanned on a creation too
SchemaPassScanOnCreation(f) ==
    IF f.schema.typ.kind = "Record"
    THEN LET prefix == f.schema.typ.prefix
             id == value_as_str(f, "_id")[1]
         IN  [updates |-> IF f.is_update
                          THEN <<Clear(prefix \o "." \o id \o ".", None)>>
                          ELSE << >>,
              insert_prefix |-> Some(prefix \o "." \o id),
              assert_empty |-> ~f.is_update]
    ELSE LET scan == ListScan(f, Len(f.schema.fields))
         IN  [updates |-> IF scan.delete_keys # << >>
                          THEN Append(scan.updates, Delete(scan.delete_keys))
                          ELSE scan.updates,
              insert_prefix |-> None,
              assert_empty |-> FALSE]

\* lines 83-131: updates, insert_prefix and assert_empty after the match on
\* the schema type (of a Record or List schema)
SchemaPass(f) ==
    IF f.schema.typ.kind = "Record"
    THEN LET prefix == f.schema.typ.prefix
             id == value_as_str(f, "_id")[1]
         IN  [updates |-> IF f.is_update
                          THEN <<Clear(prefix \o "." \o id \o ".", None)>>
                          ELSE << >>,
              insert_prefix |-> Some(prefix \o "." \o id),
              assert_empty |-> ~f.is_update]
    ELSE LET scan == ListScan(f, Len(f.schema.fields))
         IN  [updates |-> IF ~f.is_update THEN << >>
                          ELSE IF scan.delete_keys # << >>
                          THEN Append(scan.updates, Delete(scan.delete_keys))
                          ELSE scan.updates,
              insert_prefix |-> None,
              assert_empty |-> FALSE]

\* the pad width taken from the count instead of the last index
ArrayPairsPadByCount(key, values) ==
    LET total_values == Len(values) IN
    IF total_values > 1
    THEN LET pad_len == Len(to_string(total_values))
         IN  [i \in 1 .. total_values |->
                <<key \o "." \o Padded(i - 1, pad_len), values[i]>>]
    ELSE <<<<key, values[1]>>>>

\* a single element indexed like the others
ArrayPairsAlwaysIndexed(key, values) ==
    LET total_values == Len(values)
        pad_len == Len(to_string(total_values - 1))
    IN  [i \in 1 .. total_values |->
            <<key \o "." \o Padded(i - 1, pad_len), values[i]>>]

\* the indices written without padding
ArrayPairsUnpadded(key, values) ==
    LET total_values == Len(values) IN
    IF total_values > 1
    THEN [i \in 1 .. total_values |->
            <<key \o "." \o to_string(i - 1), values[i]>>]
    ELSE <<<<key, values[1]>>>>

\* lines 143-154: the pairs of a non-empty Array
ArrayPairs(key, values) ==
    LET total_values == Len(values) IN
    IF total_values > 1
    THEN LET pad_len == Len(to_string(total_values - 1))
         IN  [i \in 1 .. total_values |->
                <<key \o "." \o Padded(i - 1, pad_len), values[i]>>]
    ELSE <<<<key, values[1]>>>>

\* the pad width taken from the last pair's index, as for arrays
ExpressionPairsPadByLastIndex(key, expr) ==
    IF expr.if_thens # << >>
    THEN LET total_values == Len(expr.if_thens)
             pad_len == Len(to_string(total_values - 1))
         IN  [j \in 1 .. 2 * total_values + 1 |->
                IF j = 2 * total_values + 1
                THEN <<key \o "." \o Padded(total_values, pad_len) \o ".else",
                       expr.else_>>
                ELSE IF j % 2 = 1
                THEN <<key \o "." \o Padded((j - 1) \div 2, pad_len) \o ".if",
                       expr.if_thens[(j + 1) \div 2].if_>>
                ELSE <<key \o "." \o Padded((j - 2) \div 2, pad_len) \o ".then",
                       expr.if_thens[j \div 2].then_>>]
    ELSE <<<<key, expr.else_>>>>

\* lines 155-178: the pairs of a non-empty Expression
ExpressionPairs(key, expr) ==
    IF expr.if_thens # << >>
    THEN LET total_values == Len(expr.if_thens)
             pad_len == Len(to_string(total_values))
         IN  [j \in 1 .. 2 * total_values + 1 |->
                IF j = 2 * total_values + 1
                THEN <<key \o "." \o Padded(total_values, pad_len) \o ".else",
                       expr.else_>>
                ELSE IF j % 2 = 1
                THEN <<key \o "." \o Padded((j - 1) \div 2, pad_len) \o ".if",
                       expr.if_thens[(j + 1) \div 2].if_>>
                ELSE <<key \o "." \o Padded((j - 2) \div 2, pad_len) \o ".then",
                       expr.if_thens[j \div 2].then_>>]
    ELSE <<<<key, expr.else_>>>>

\* the loop body without the test for internal keys
PairsOfInternalKeysToo(key, value) ==
    IF value.tag = "Value" /\ value.value # ""
    THEN <<<<key, value.value>>>>
    ELSE IF value.tag = "Array" /\ value.values # << >>
    THEN ArrayPairs(key, value.values)
    ELSE IF value.tag = "Expression" /\ ~expr_is_empty(value)
    THEN ExpressionPairs(key, value)
    ELSE << >>

\* the loop body without the test for an empty Value string
PairsOfEmptyStringsToo(key, value) ==
    IF starts_with(key, "_") THEN << >>
    ELSE IF value.tag = "Value"
    THEN <<<<key, value.value>>>>
    ELSE IF value.tag = "Array" /\ value.values # << >>
    THEN ArrayPairs(key, value.values)
    ELSE IF value.tag = "Expression" /\ ~expr_is_empty(value)
    THEN ExpressionPairs(key, value)
    ELSE << >>

\* lines 135-180: what one entry of the form adds to key_values
Pairs(key, value) ==
    IF starts_with(key, "_") THEN << >>
    ELSE IF value.tag = "Value" /\ value.value # ""
    THEN <<<<key, value.value>>>>
    ELSE IF value.tag = "Array" /\ value.values # << >>
    THEN ArrayPairs(key, value.values)
    ELSE IF value.tag = "Expression" /\ ~expr_is_empty(value)
    THEN ExpressionPairs(key, value)
    ELSE << >>

\* the loop run over the form from its last entry to its first
RECURSIVE KeyValuesBackwards(_)
KeyValuesBackwards(values) ==
    IF values = << >> THEN << >>
    ELSE Pairs(values[Len(values)].key, values[Len(values)].value)
            \o KeyValuesBackwards(SubSeq(values, 1, Len(values) - 1))

\* lines 133-181: key_values after the loop over the form
RECURSIVE KeyValues(_)
KeyValues(values) ==
    IF values = << >> THEN << >>
    ELSE KeyValues(SubSeq(values, 1, Len(values) - 1))
            \o Pairs(values[Len(values)].key, values[Len(values)].value)

\* the Insert put in front of the vector
WithInsertFirst(pass, key_values) ==
    IF key_values # << >>
    THEN <<Insert(pass.insert_prefix, key_values, pass.assert_empty)>>
            \o pass.updates
    ELSE pass.updates

\* the Insert pushed whether or not there is a pair
WithInsertAlways(pass, key_values) ==
    Append(pass.updates,
           Insert(pass.insert_prefix, key_values, pass.assert_empty))

\* lines 183-191: the Insert that ends the vector
WithInsert(pass, key_values) ==
    IF key_values # << >>
    THEN Append(pass.updates,
                Insert(pass.insert_prefix, key_values, pass.assert_empty))
    ELSE pass.updates

\* lines 82-192: FormData::build_update
build_update(f) ==
    IF f.schema.typ.kind = "Entry" THEN EntryUpdates(f)
    ELSE WithInsert(SchemaPass(f), KeyValues(f.values))

\* lines 91, 98, 105: value_as_str("_id").unwrap() of a Record or Entry form
Panics(f) ==
    f.schema.typ.kind \in {"Record", "Entry"} /\ value_as_str(f, "_id") = None

\* a call of build_update on the form
BuildUpdate ==
    /\ phase = "form"
    /\ IF Panics(form)
       THEN phase' = "panicked" /\ updates' = << >>
       ELSE phase' = "returned" /\ updates' = build_update(form)
    /\ UNCHANGED <<form, notUpdate>>

(***************************************************************************)
(* SettingsValues for Settings (src/pages/config/mod.rs:195-272).          *)
(*                                                                         *)
(* Settings is a hash map: the variable settings holds its entries in the  *)
(* order its iterator yields them, any order of distinct keys.             *)
(***************************************************************************)
\* the most entries of a Settings map
MaxSettings == 4

\* str::starts_with(&str)
str_starts_with(s, prefix) ==
    Len(s) >= Len(prefix) /\ SubSeq(s, 1, Len(prefix)) = prefix

\* the byte of a character, among the characters of the model's keys
Byte(c) ==
    CHOOSE i \in 1 .. 38 :
        SubSeq(".0123456789_abcdefghijklmnopqrstuvwxyz", i, i) = c

\* l_key.cmp(r_key) == Ordering::Less: the byte-wise order of str
RECURSIVE cmp_less(_, _)
cmp_less(l, r) ==
    IF r = "" THEN FALSE
    ELSE IF l = "" THEN TRUE
    ELSE IF Head(l) = Head(r) THEN cmp_less(Tail(l), Tail(r))
    ELSE Byte(Head(l)) < Byte(Head(r))

\* line 217: results.sort_by(..), a stable sort by key
RECURSIVE InsertByKey(_, _)
InsertByKey(sorted, e) ==
    IF sorted = << >> THEN <<e>>
    ELSE IF cmp_less(e[1], sorted[Len(sorted)][1])
    THEN Append(InsertByKey(SubSeq(sorted, 1, Len(sorted) - 1), e),
                sorted[Len(sorted)])
    ELSE Append(sorted, e)

RECURSIVE sort_by_key(_)
sort_by_key(results) ==
    IF results = << >> THEN << >>
    ELSE InsertByKey(sort_by_key(SubSeq(results, 1, Len(results) - 1)),
                     results[Len(results)])

\* line 208 without the separator: every key that starts with the key
MatchesNoSeparator(entry_key, key) ==
    str_starts_with(entry_key, key) \/ entry_key = key

\* line 208: the entries array_values keeps
Matches(entry_key, key) ==
    str_starts_with(entry_key, key \o ".") \/ entry_key = key

\* lines 205-214: filter_map over the iterator, collected
Collected(map, key) ==
    LET kept == SelectSeq(map, LAMBDA e : Matches(e.key, key))
    IN  [i \in 1 .. Len(kept) |-> <<kept[i].key, kept[i].value>>]

\* lines 201-219: array_values
array_values(map, key) == sort_by_key(Collected(map, key))

\* Settings::get
SettingsHas(map, id) == \E i \in 1 .. Len(map) : map[i].key = id

SettingsGet(map, id) ==
    map[CHOOSE i \in 1 .. Len(map) : map[i].key = id].value

\* str::parse::<u64> on the strings of the model, which hold at most seven
\* characters: a non-empty string of decimal digits is its value (below
\* 2^64), any other string is not a number
RECURSIVE digits_value(_)
digits_value(s) ==
    IF s = "" THEN 0
    ELSE 10 * digits_value(SubSeq(s, 1, Len(s) - 1))
            + (CHOOSE d \in 0 .. 9 : Digit(d) = SubSeq(s, Len(s), Len(s)))

parse_u64(s) ==
    IF /\ s # ""
       /\ Len(s) <= 7
       /\ \A i \in 1 .. Len(s) : \E d \in 0 .. 9 : Digit(d) = SubSeq(s, i, i)
    THEN Some(digits_value(s))
    ELSE None

\* humansize::format_size(n, DECIMAL): n in the largest unit of 1000^k not
\* above it, without decimals when that is a whole number and with two
\* decimals otherwise
RECURSIVE UnitOf(_)
UnitOf(n) == IF n < 1000 THEN 0 ELSE 1 + UnitOf(n \div 1000)

RECURSIVE Pow1000(_)
Pow1000(k) == IF k = 0 THEN 1 ELSE 1000 * Pow1000(k - 1)

UnitName(k) ==
    CASE k = 0 -> "B" [] k = 1 -> "kB" [] k = 2 -> "MB" [] OTHER -> "GB"

format_size(n) ==
    LET k == UnitOf(n)
        hundredths == (n * 100 + Pow1000(k) \div 2) \div Pow1000(k)
    IN  IF n % Pow1000(k) = 0
        THEN to_string(n \div Pow1000(k)) \o " " \o UnitName(k)
        ELSE to_string(hundredths \div 100) \o "."
                \o ZeroFill(to_string(hundredths % 100), 2)
                \o " " \o UnitName(k)

\* Duration::from_str and Duration::format, on the strings of the model:
\* "5s" is a duration, the other strings are not
duration_from_str(s) == IF s = "5s" THEN Some("5 seconds") ELSE None

\* Rate::from_str and Rate::format: "100/1h" is a rate
rate_from_str(s) == IF s = "100/1h" THEN Some("100 every 1 hour") ELSE None

\* lines 223-237: a single Select over a static table of (value, label)
format_select(map, field) ==
    LET value == IF SettingsHas(map, field.id) THEN SettingsGet(map, field.id)
                 ELSE ""
        found == {i \in 1 .. Len(field.items) : field.items[i][1] = value}
    IN  IF found # {}
        THEN field.items[CHOOSE i \in found : \A j \in found : i <= j][2]
        ELSE value

\* lines 243-249 with nothing shown for an absent value
format_boolean_blank(map, field) ==
    IF ~SettingsHas(map, field.id) THEN ""
    ELSE IF SettingsGet(map, field.id) = "true" THEN "Yes"
    ELSE "No"

\* lines 243-249: a Boolean
format_boolean(map, field) ==
    IF SettingsHas(map, field.id) /\ SettingsGet(map, field.id) = "true"
    THEN "Yes"
    ELSE "No"

\* lines 221-271: format
format(map, field) ==
    CASE field.typ = "Select" -> format_select(map, field)
      [] field.typ = "Array" ->
            IF array_values(map, field.id) # << >>
            THEN array_values(map, field.id)[1][2]
            ELSE ""
      [] field.typ = "Boolean" -> format_boolean(map, field)
      [] field.typ = "Duration" ->
            IF SettingsHas(map, field.id)
               /\ duration_from_str(SettingsGet(map, field.id)) # None
            THEN duration_from_str(SettingsGet(map, field.id))[1]
            ELSE ""
      [] field.typ = "Rate" ->
            IF SettingsHas(map, field.id)
               /\ rate_from_str(SettingsGet(map, field.id)) # None
            THEN rate_from_str(SettingsGet(map, field.id))[1]
            ELSE ""
      [] field.typ = "Size" ->
            IF SettingsHas(map, field.id)
               /\ parse_u64(SettingsGet(map, field.id)) # None
            THEN format_size(parse_u64(SettingsGet(map, field.id))[1])
            ELSE ""
      [] OTHER ->
            IF SettingsHas(map, field.id) THEN SettingsGet(map, field.id)
            ELSE ""

\* The maps of the model: the key "k" holds any of the stored values, the
\* other keys one value each.
SettingKeys == {"k", "k.0", "k.1", "k.10", "k.2", "kx", "j"}

StoredValues == {"true", "1500000", "abc", "5s", "100/1h", "", "c"}

ValueOfKey(key) ==
    CASE key = "k.0" -> "a"
      [] key = "k.1" -> "b"
      [] key = "k.10" -> "g"
      [] key = "k.2" -> "d"
      [] key = "kx" -> "e"
      [] OTHER -> "f"

\* the orders a map of n distinct keys can be iterated in
RECURSIVE KeyOrders(_)
KeyOrders(n) ==
    IF n = 0 THEN {<< >>}
    ELSE {Append(ks, key) :
             ks \in KeyOrders(n - 1),
             key \in SettingKeys} \
         {Append(ks, ks[i]) : ks \in KeyOrders(n - 1), i \in 1 .. n - 1}

SettingsMaps ==
    {[i \in 1 .. Len(ks) |->
         [key |-> ks[i],
          value |-> IF ks[i] = "k" THEN v ELSE ValueOfKey(ks[i])]] :
        ks \in UNION {KeyOrders(n) : n \in 0 .. MaxSettings},
        v \in StoredValues}

\* the fields format is called with
SelectItems == <<<<"abc", "Label of abc">>, <<"true", "Label of true">>>>

FormatFields ==
    {[id |-> id, typ |-> typ, items |-> SelectItems] :
        id \in {"k", "j"},
        typ \in {"Select", "Array", "Boolean", "Duration", "Rate", "Size",
                 "Text"}}

NoSettingsCall == [op |-> "none"]

SvInit ==
    /\ settings = << >>
    /\ shown = << >>
    /\ svOp = NoSettingsCall

\* a call of array_values on the map
ArrayValues(key) ==
    /\ svOp = NoSettingsCall
    /\ svOp' = [op |-> "array_values", key |-> key]
    /\ shown' = array_values(settings, key)
    /\ UNCHANGED <<settings, notSettings>>

\* a call of format on the map
Format(field) ==
    /\ svOp = NoSettingsCall
    /\ svOp' = [op |-> "format", field |-> field]
    /\ shown' = format(settings, field)
    /\ UNCHANGED <<settings, notSettings>>

(***************************************************************************)
(* check_rate_limit, statement by statement, called by several threads     *)
(* (src/utils/security.rs:67-85).                                          *)
(***************************************************************************)
\* the threads that call check_rate_limit at the same moment
NumRateThreads == 2

RateThreads == 1 .. NumRateThreads

RtInit ==
    /\ rlLock = 0
    /\ rlPc = [th \in RateThreads |-> "idle"]
    /\ rlArg = [th \in RateThreads |-> "-"]
    /\ rlRet = [th \in RateThreads |-> "-"]
    /\ rlPrior = [i \in Identifiers |-> 0]

\* line 68: RATE_LIMITS.lock() returns at once, whoever holds the Mutex
RateLockGrantedAlways(holder) == TRUE

\* line 68: RATE_LIMITS.lock() returns when no thread holds the Mutex
RateLockGranted(holder) == holder = 0

\* a thread enters check_rate_limit(identifier)
RlCall(th, identifier) ==
    /\ rlPc[th] = "idle"
    /\ rlPc' = [rlPc EXCEPT ![th] = "lock"]
    /\ rlArg' = [rlArg EXCEPT ![th] = identifier]
    /\ UNCHANGED <<limits, rlLock, rlRet, rlPrior, notRateThreads>>

\* line 68: let mut limits = RATE_LIMITS.lock().unwrap();
RlAcquire(th) ==
    /\ rlPc[th] = "lock"
    /\ RateLockGranted(rlLock)
    /\ rlLock' = th
    /\ rlPc' = [rlPc EXCEPT ![th] = "get"]
    /\ UNCHANGED <<limits, rlArg, rlRet, rlPrior, notRateThreads>>

\* line 72: if let Some(requests) = limits.get_mut(identifier)
RlGet(th) ==
    /\ rlPc[th] = "get"
    /\ rlPc' = [rlPc EXCEPT ![th] =
                  IF rlArg[th] \in DOMAIN limits THEN "retain" ELSE "insert"]
    /\ UNCHANGED <<limits, rlLock, rlArg, rlRet, rlPrior, notRateThreads>>

\* line 73: requests.retain(..)
RlRetain(th) ==
    /\ rlPc[th] = "retain"
    /\ limits' = IF rlArg[th] \in DOMAIN limits
                 THEN [limits EXCEPT ![rlArg[th]] = Retain(@, now)]
                 ELSE limits
    /\ rlPc' = [rlPc EXCEPT ![th] = "len"]
    /\ UNCHANGED <<rlLock, rlArg, rlRet, rlPrior, notRateThreads>>

\* line 75: if requests.len() >= MAX_REQUESTS_PER_WINDOW
RlLen(th) ==
    /\ rlPc[th] = "len"
    /\ rlPc' = [rlPc EXCEPT ![th] =
                  IF AtCapacity(limits[rlArg[th]]) THEN "return_err"
                  ELSE "push"]
    /\ UNCHANGED <<limits, rlLock, rlArg, rlRet, rlPrior, notRateThreads>>

\* line 79: requests.push(now);
RlPush(th) ==
    /\ rlPc[th] = "push"
    /\ limits' = [limits EXCEPT ![rlArg[th]] = Append(@, now)]
    /\ rlPc' = [rlPc EXCEPT ![th] = "return_ok"]
    /\ UNCHANGED <<rlLock, rlArg, rlRet, rlPrior, notRateThreads>>

\* line 81: limits.insert(identifier.to_string(), vec![now]);
RlInsert(th) ==
    /\ rlPc[th] = "insert"
    /\ limits' = MapInsert(limits, rlArg[th], <<now>>)
    /\ rlPc' = [rlPc EXCEPT ![th] = "return_ok"]
    /\ UNCHANGED <<rlLock, rlArg, rlRet, rlPrior, notRateThreads>>

\* lines 76 and 84: the return, which drops the guard
RlReturn(th) ==
    /\ rlPc[th] \in {"return_ok", "return_err"}
    /\ rlRet' = [rlRet EXCEPT ![th] =
                   IF rlPc[th] = "return_ok" THEN "Ok" ELSE "Err"]
    /\ rlLock' = IF rlLock = th THEN 0 ELSE rlLock
    /\ rlPc' = [rlPc EXCEPT ![th] = "done"]
    /\ UNCHANGED <<limits, rlArg, rlPrior, notRateThreads>>

\* What RATE_LIMITS holds when the threads call: per identifier no entry,
\* or some events that have left the window followed by events inside it,
\* as many as the limit or one or two fewer, never more than the limit in
\* all.
PriorInWindow == {0, MAX_REQUESTS_PER_WINDOW - 2, MAX_REQUESTS_PER_WINDOW - 1,
                  MAX_REQUESTS_PER_WINDOW}

PriorStale == {0, 1}

PriorList(stale, fresh) ==
    [n \in 1 .. stale + fresh |->
        IF n <= stale THEN 0 ELSE RATE_LIMIT_WINDOW \div 2]

PriorLimits ==
    UNION {{[i \in {x \in Identifiers : stale[x] + fresh[x] > 0} |->
                PriorList(stale[i], fresh[i])] :
               fresh \in {f \in [Identifiers -> PriorInWindow] :
                             \A x \in Identifiers :
                                 stale[x] + f[x] <= MAX_REQUESTS_PER_WINDOW}} :
           stale \in [Identifiers -> PriorStale]}

(***************************************************************************)
(* The audit functions, statement by statement, called by several threads  *)
(* (src/utils/audit.rs:35-68).                                             *)
(***************************************************************************)
\* the threads that call an audit function
NumAuditThreads == 2

AuditThreads == 1 .. NumAuditThreads

AtInit ==
    /\ auditLock = 0
    /\ aPc = [th \in AuditThreads |-> "idle"]
    /\ aOp = [th \in AuditThreads |-> [op |-> "none"]]
    /\ copies = 0

\* what the threads call
AuditCalls ==
    {[op |-> "log_audit"], [op |-> "get_audit_logs"]}
        \cup {[op |-> "cleanup_audit_logs", max_age_days |-> d] : d \in AgeDays}

\* AUDIT_LOGS.lock() returns at once, whoever holds the Mutex
AuditLockGrantedAlways(holder) == TRUE

\* lines 51, 60, 65: AUDIT_LOGS.lock() returns when no thread holds the Mutex
AuditLockGranted(holder) == holder = 0

\* a thread enters one of the functions; log_audit builds its entry, with
\* Utc::now(), before it takes the lock (lines 42-49)
ACall(th, call) ==
    /\ aPc[th] = "idle"
    /\ aPc' = [aPc EXCEPT ![th] = "lock"]
    /\ aOp' = [aOp EXCEPT ![th] =
                 IF call.op = "log_audit"
                 THEN [op |-> "log_audit",
                       log |-> AuditEntry(utc, "ConfigUpdate", -th,
                                          "Test log", "None", TRUE)]
                 ELSE call]
    /\ UNCHANGED <<auditVars, auditLock, copies, notAuditThreads>>

\* lines 51, 60, 65: AUDIT_LOGS.lock().unwrap()
AAcquire(th) ==
    /\ aPc[th] = "lock"
    /\ AuditLockGranted(auditLock)
    /\ auditLock' = th
    /\ aPc' = [aPc EXCEPT ![th] =
                 CASE aOp[th].op = "log_audit" -> "len"
                   [] aOp[th].op = "get_audit_logs" -> "collect"
                   [] OTHER -> "retain"]
    /\ UNCHANGED <<auditVars, aOp, copies, notAuditThreads>>

\* line 52: if logs.len() >= MAX_AUDIT_LOGS
ALen(th) ==
    /\ aPc[th] = "len"
    /\ aPc' = [aPc EXCEPT ![th] =
                 IF AuditFull(auditLogs) THEN "pop_front" ELSE "push_back"]
    /\ UNCHANGED <<auditVars, auditLock, aOp, copies, notAuditThreads>>

\* line 53: logs.pop_front();
APopFront(th) ==
    /\ aPc[th] = "pop_front"
    /\ auditLogs' = IF auditLogs = << >> THEN auditLogs
                    ELSE PopFront(auditLogs)
    /\ aPc' = [aPc EXCEPT ![th] = "push_back"]
    /\ UNCHANGED <<utc, logged, swept, snapshot, auditLock, aOp, copies,
                   notAuditThreads>>

\* line 55: logs.push_back(log);
APushBack(th) ==
    /\ aPc[th] = "push_back"
    /\ auditLogs' = Append(auditLogs, aOp[th].log)
    /\ logged' = logged + 1
    /\ aPc' = [aPc EXCEPT ![th] = "return"]
    /\ UNCHANGED <<utc, swept, snapshot, auditLock, aOp, copies,
                   notAuditThreads>>

\* line 60: .iter().cloned().collect()
ACollect(th) ==
    /\ aPc[th] = "collect"
    /\ snapshot' = get_audit_logs(auditLogs)
    /\ copies' = copies + 1
    /\ aPc' = [aPc EXCEPT ![th] = "return"]
    /\ UNCHANGED <<utc, auditLogs, logged, swept, auditLock, aOp,
                   notAuditThreads>>

\* lines 66-67: the cutoff and logs.retain(..)
ARetain(th) ==
    /\ aPc[th] = "retain"
    /\ auditLogs' = cleanup_audit_logs(auditLogs, aOp[th].max_age_days, utc)
    /\ swept' = IF auditLogs' # auditLogs THEN swept + 1 ELSE swept
    /\ aPc' = [aPc EXCEPT ![th] = "return"]
    /\ UNCHANGED <<utc, logged, snapshot, auditLock, aOp, copies,
                   notAuditThreads>>

\* the function returns and its guard is dropped
AReturn(th) ==
    /\ aPc[th] = "return"
    /\ auditLock' = IF auditLock = th THEN 0 ELSE auditLock
    /\ aPc' = [aPc EXCEPT ![th] = "done"]
    /\ UNCHANGED <<auditVars, aOp, copies, notAuditThreads>>

\* What AUDIT_LOGS holds when the threads call, on day 2: one entry of day
\* 0, one of day 1 and entries of day 2, up to the capacity or one fewer.
PriorLogSizes == {3, MAX_AUDIT_LOGS - 1, MAX_AUDIT_LOGS}

PriorLog(size) ==
    [j \in 1 .. size |->
        AuditEntry(IF j <= 2 THEN j - 1 ELSE 2, "ConfigUpdate", j - 1,
                   "Test log", "None", TRUE)]

NoSweepCall == [op |-> "none", res |-> "-", plain |-> "-", differed |-> FALSE]

SwInit ==
    /\ plainLimits = EmptyMap
    /\ plainTokens = EmptyMap
    /\ swLast = NoSweepCall

\* the events of an identifier that check_rate_limit finds in the window
EntryEvents(lim, identifier, t) ==
    IF identifier \in DOMAIN lim THEN Retain(lim[identifier], t) ELSE << >>

\* the entry of a key in a map, or none
EntryOf(map, key) == IF key \in DOMAIN map THEN Some(map[key]) ELSE None

\* check_rate_limit(identifier), made on RATE_LIMITS and on the map that
\* no sweep has touched, while the identifier has next to no events in the
\* window or is next to the limit
SwCheckRateLimit(identifier) ==
    /\ LET n == Len(EntryEvents(plainLimits, identifier, now)) IN
          \/ n < MaxOther
          \/ n >= MAX_REQUESTS_PER_WINDOW - MaxOther
    /\ LET r == check_rate_limit(limits, identifier, now)
           p == check_rate_limit(plainLimits, identifier, now)
       IN  /\ limits' = r.limits
           /\ plainLimits' = p.limits
           /\ swLast' = [op |-> "check_rate_limit", res |-> r.result,
                         plain |-> p.result,
                         differed |-> EntryOf(limits, identifier)
                                         # EntryOf(plainLimits, identifier)]
    /\ UNCHANGED <<now, tokens, plainTokens, notSweeps>>

\* generate_csrf_token(), made on both stores
SwGenerateCsrfToken(token) ==
    /\ tokens' = generate_csrf_token(tokens, token, now)
    /\ plainTokens' = generate_csrf_token(plainTokens, token, now)
    /\ swLast' = [op |-> "generate_csrf_token", res |-> token,
                  plain |-> token, differed |-> FALSE]
    /\ UNCHANGED <<now, limits, plainLimits, notSweeps>>

\* validate_csrf_token(token), made on both stores
SwValidateCsrfToken(token) ==
    /\ LET r == validate_csrf_token(tokens, token, now)
           p == validate_csrf_token(plainTokens, token, now)
       IN  /\ tokens' = r.tokens
           /\ plainTokens' = p.tokens
           /\ swLast' = [op |-> "validate_csrf_token",
                         res |-> IF r.result THEN "true" ELSE "false",
                         plain |-> IF p.result THEN "true" ELSE "false",
                         differed |-> EntryOf(tokens, token)
                                         # EntryOf(plainTokens, token)]
    /\ UNCHANGED <<now, limits, plainLimits, notSweeps>>

\* cleanup_rate_limits(), which the history without sweeps does not make
SweepRateLimits ==
    /\ limits' = cleanup_rate_limits(limits, now)
    /\ swLast' = [op |-> "cleanup_rate_limits", res |-> "-", plain |-> "-",
                  differed |-> FALSE]
    /\ UNCHANGED <<now, tokens, plainLimits, plainTokens, notSweeps>>

\* cleanup_expired_csrf_tokens(), which the history without sweeps does
\* not make
SweepCsrfTokens ==
    /\ tokens' = cleanup_expired_csrf_tokens(tokens, now)
    /\ swLast' = [op |-> "cleanup_expired_csrf_tokens", res |-> "-",
                  plain |-> "-", differed |-> FALSE]
    /\ UNCHANGED <<now, limits, plainLimits, plainTokens, notSweeps>>

\* The clock of the comparison: it advances by half a rate window, twice
\* at most, and by a third of the token expiry.
MaxSweepTicks == 3

SweepTickStep(tick) ==
    /\ now + tick <= MaxSweepTicks * CsrfTick + 2 * RateTick
    /\ tick = RateTick => now < 2 * RateTick
    /\ now' = now + tick
    /\ swLast' = [op |-> "tick", res |-> "-", plain |-> "-",
                  differed |-> FALSE]
    /\ UNCHANGED <<limits, tokens, plainLimits, plainTokens, notSweeps>>

MoreInit == SvInit /\ RtInit /\ AtInit /\ SwInit

(***************************************************************************)
(* The specifications.                                                     *)
(***************************************************************************)
StartInit ==
    /\ now = 0
    /\ RlInit
    /\ CsrfInit
    /\ ThreadInit
    /\ AuditInit
    /\ Unmounted
    /\ UpdInit
    /\ MoreInit

RateNext ==
    \/ \E identifier \in Identifiers : CheckRateLimit(identifier)
    \/ CleanupRateLimits
    \/ RateTickStep

SpecRate == StartInit /\ [][RateNext]_vars

CsrfNext ==
    \/ \E token \in Tokens : GenerateCsrfToken(token)
    \/ \E token \in Tokens : ValidateCsrfToken(token)
    \/ CleanupExpiredCsrfTokens
    \/ CsrfTickStep

SpecCsrf == StartInit /\ [][CsrfNext]_vars

ThreadsNext ==
    \/ \E token \in Tokens : IssueBeforeCalls(token)
    \/ CleanupExpiredCsrfTokens
    \/ CsrfTickStep
    \/ \E th \in Threads, token \in Tokens : Call(th, token)
    \/ \E th \in Threads : Acquire(th)
    \/ \E th \in Threads : Lookup(th)
    \/ \E th \in Threads : Remove(th)
    \/ \E th \in Threads : Return(th)

SpecCsrfThreads == StartInit /\ [][ThreadsNext]_vars

AuditNext ==
    \/ LogAudit
    \/ GetAuditLogs
    \/ \E max_age_days \in AgeDays : CleanupAuditLogs(max_age_days)
    \/ UtcTickStep

SpecAudit == StartInit /\ [][AuditNext]_vars

\* RATE_LIMITS is process-wide and outlives the component: at mount each
\* layout identifier holds what earlier requests of the same minute left,
\* here none or one less than the limit.  Mounting issues the CSRF token
\* (line 65).
PriorRequests == {0, MAX_REQUESTS_PER_WINDOW - 1}

LayoutInit ==
    /\ now = 0
    /\ \E n \in PriorRequests :
          limits = IF n = 0 THEN EmptyMap
                   ELSE [i \in LayoutIds |-> [j \in 1 .. n |-> 0]]
    /\ rlLast = NoCall
    /\ okLog = [i \in Identifiers |-> << >>]
    /\ rejected = {}
    /\ \E token \in Tokens :
          /\ csrf_token = token
          /\ tokens = generate_csrf_token(EmptyMap, token, 0)
    /\ csrfLock = 0
    /\ csrfLast = NoOp
    /\ validCount = [k \in Tokens |-> 0]
    /\ issuedAt = [k \in Tokens |-> -1]
    /\ ThreadInit
    /\ AuditInit
    /\ UiInit
    /\ UpdInit
    /\ MoreInit

LayoutNext ==
    \/ AutoSaveEffect
    \/ HandleSave
    \/ HandlePreview
    \/ \E file \in FileInputs : HandleFileUpload(file)
    \/ \E is_string \in BOOLEAN : ReaderOnload(is_string)
    \/ \E token \in Tokens : HandleReset(token)
    \/ ToggleEdit
    \/ \E url \in LogoInputs : InputLogoUrl(url)
    \/ \E title \in TitleInputs : InputTitle(title)
    \/ ToggleAutoSave

SpecLayout == LayoutInit /\ [][LayoutNext]_vars

\* the caller has built a form; build_update is called on it once
UpdateInit ==
    /\ now = 0
    /\ RlInit
    /\ CsrfInit
    /\ ThreadInit
    /\ AuditInit
    /\ Unmounted
    /\ form \in Forms
    /\ updates = << >>
    /\ phase = "form"
    /\ MoreInit

UpdateNext == BuildUpdate

SpecUpdate == UpdateInit /\ [][UpdateNext]_vars

\* Threads call check_rate_limit at one instant, a window after the start.
RateThreadsInit ==
    /\ now = RATE_LIMIT_WINDOW
    /\ limits \in PriorLimits
    /\ rlLast = NoCall
    /\ okLog = [i \in Identifiers |-> << >>]
    /\ rejected = {}
    /\ CsrfInit
    /\ ThreadInit
    /\ AuditInit
    /\ Unmounted
    /\ UpdInit
    /\ SvInit
    /\ rlLock = 0
    /\ rlPc = [th \in RateThreads |-> "idle"]
    /\ rlArg = [th \in RateThreads |-> "-"]
    /\ rlRet = [th \in RateThreads |-> "-"]
    /\ rlPrior = [i \in Identifiers |->
                     IF i \in DOMAIN limits
                     THEN Len(Retain(limits[i], now))
                     ELSE 0]
    /\ AtInit
    /\ SwInit

RateThreadsNext ==
    \/ \E th \in RateThreads, identifier \in Identifiers :
          RlCall(th, identifier)
    \/ \E th \in RateThreads : RlAcquire(th)
    \/ \E th \in RateThreads : RlGet(th)
    \/ \E th \in RateThreads : RlRetain(th)
    \/ \E th \in RateThreads : RlLen(th)
    \/ \E th \in RateThreads : RlPush(th)
    \/ \E th \in RateThreads : RlInsert(th)
    \/ \E th \in RateThreads : RlReturn(th)

SpecRateThreads == RateThreadsInit /\ [][RateThreadsNext]_vars

\* The same calls are made on the services and on copies of them that are
\* never swept.  RATE_LIMITS holds no entry, or what 58 requests of the
\* first instant left.
SweepsInit ==
    /\ now = 0
    /\ limits \in {EmptyMap,
                   [i \in {Subject} |->
                       [n \in 1 .. MAX_REQUESTS_PER_WINDOW - 2 |-> 0]]}
    /\ plainLimits = limits
    /\ rlLast = NoCall
    /\ okLog = [i \in Identifiers |-> << >>]
    /\ rejected = {}
    /\ CsrfInit
    /\ plainTokens = EmptyMap
    /\ swLast = NoSweepCall
    /\ ThreadInit
    /\ AuditInit
    /\ Unmounted
    /\ UpdInit
    /\ SvInit
    /\ RtInit
    /\ AtInit

SweepsNext ==
    \/ SwCheckRateLimit(Subject)
    \/ \E token \in Tokens : SwGenerateCsrfToken(token)
    \/ \E token \in Tokens : SwValidateCsrfToken(token)
    \/ SweepRateLimits
    \/ SweepCsrfTokens
    \/ \E tick \in {RateTick, CsrfTick} : SweepTickStep(tick)

SpecSweeps == SweepsInit /\ [][SweepsNext]_vars

\* Threads call the audit functions on day 2.
AuditThreadsInit ==
    /\ now = 0
    /\ RlInit
    /\ CsrfInit
    /\ ThreadInit
    /\ utc = 2
    /\ \E size \in PriorLogSizes :
          /\ auditLogs = PriorLog(size)
          /\ logged = size
    /\ swept = 0
    /\ snapshot = << >>
    /\ Unmounted
    /\ UpdInit
    /\ SvInit
    /\ RtInit
    /\ AtInit
    /\ SwInit

AuditThreadsNext ==
    \/ \E th \in AuditThreads, call \in AuditCalls : ACall(th, call)
    \/ \E th \in AuditThreads : AAcquire(th)
    \/ \E th \in AuditThreads : ALen(th)
    \/ \E th \in AuditThreads : APopFront(th)
    \/ \E th \in AuditThreads : APushBack(th)
    \/ \E th \in AuditThreads : ACollect(th)
    \/ \E th \in AuditThreads : ARetain(th)
    \/ \E th \in AuditThreads : AReturn(th)

SpecAuditThreads == AuditThreadsInit /\ [][AuditThreadsNext]_vars

\* array_values or format is called once on a map
SettingsInit ==
    /\ now = 0
    /\ RlInit
    /\ CsrfInit
    /\ ThreadInit
    /\ AuditInit
    /\ Unmounted
    /\ UpdInit
    /\ settings \in SettingsMaps
    /\ shown = << >>
    /\ svOp = NoSettingsCall
    /\ RtInit
    /\ AtInit
    /\ SwInit

SettingsNext ==
    \/ \E key \in {"k", "j", "k.1"} : ArrayValues(key)
    \/ \E field \in FormatFields : Format(field)

SpecSettings == SettingsInit /\ [][SettingsNext]_vars

(***************************************************************************)
(* Claims about the rate limiter, checked under SpecRate.                  *)
(*                                                                         *)
(* okLog is kept by the claims' own definition of the window: an Ok result *)
(* at instant t enters it, and a clock step to instant t' drops every      *)
(* entry that is not in (t'-60, t'].  Calls happen at the instants the     *)
(* clock takes, so the calls of any window (t-60, t] are among those of    *)
(* the window that ends at the last instant the clock took up to t, and    *)
(* that window is okLog in the last state with that instant.               *)
(***************************************************************************)

\* C1: for every identifier, at most 60 check_rate_limit calls return Ok
\* within any 60-second window (t-60, t], whatever cleanups and calls for
\* other identifiers are interleaved.
C1_AtMost60OkPerWindow ==
    \A i \in Identifiers : Len(okLog[i]) <= MAX_REQUESTS_PER_WINDOW

\* C1 witness: the subject has 60 Ok results in one window, recorded at two
\* different instants, with another identifier recorded in between.
C1_Witness ==
    /\ Len(okLog[Subject]) = MAX_REQUESTS_PER_WINDOW
    /\ okLog[Subject][1] < okLog[Subject][MAX_REQUESTS_PER_WINDOW]
    /\ rlLast.op = "check" /\ rlLast.id = Subject /\ rlLast.res = "Ok"
    /\ "layout_config_save" \in DOMAIN limits

\* C2: a check returns Ok exactly when fewer than 60 Ok results lie in the
\* 60 seconds before it: from no recorded events the first 60 calls within
\* 60 seconds return Ok (0..59 before), the 61st returns Err (60 before),
\* and a call made once those events are 60 seconds old returns Ok.
C2_OkUntil60ThenErrThenOk ==
    rlLast.op = "check" =>
        /\ rlLast.before < MAX_REQUESTS_PER_WINDOW => rlLast.res = "Ok"
        /\ rlLast.before >= MAX_REQUESTS_PER_WINDOW => rlLast.res = "Err"

\* C2 witness: the subject was rejected (its 61st call in a window), the
\* window of those 60 events has elapsed, and the call made then returned Ok.
C2_Witness ==
    /\ Subject \in rejected
    /\ rlLast = [op |-> "check", id |-> Subject, res |-> "Ok", before |-> 0]
    /\ limits[Subject] = <<now>>
    /\ now >= RATE_LIMIT_WINDOW

\* C3: a check that returns Err records nothing: the identifier's list is
\* left with exactly its entries that were inside the window before the
\* call, and no other identifier's list changes.
C3_ExceededRecordsNothing ==
    [][(rlLast'.op = "check" /\ rlLast'.res = "Err") =>
          /\ rlLast'.id \in DOMAIN limits
          /\ limits' = [limits EXCEPT
                          ![rlLast'.id] = InWindow(limits[rlLast'.id], now)]
          /\ now' = now]_vars

\* C3 witness: a check of the subject has just returned Err while another
\* identifier holds recorded events.
C3_Witness ==
    /\ rlLast.op = "check" /\ rlLast.id = Subject /\ rlLast.res = "Err"
    /\ "layout_config_save" \in DOMAIN limits
    /\ Len(limits[Subject]) = MAX_REQUESTS_PER_WINDOW

(***************************************************************************)
(* Claims about the token store, checked under SpecCsrf.                   *)
(***************************************************************************)

\* C4: a CSRF token is single-use: after an issuance at most one validation
\* of that token returns true, and a validation that directly follows the
\* issuance of its token returns true.
C4_SingleUse ==
    /\ [](\A k \in Tokens : validCount[k] <= 1)
    /\ [][(csrfLast.op = "generate" /\ csrfLast'.op = "validate"
            /\ csrfLast'.token = csrfLast.token) => csrfLast'.res]_vars

\* C4 witness: a token was issued, validated with true, and the validation
\* after that returned false.
C4_Witness ==
    \E k \in Tokens :
        /\ issuedAt[k] >= 0
        /\ validCount[k] = 1
        /\ csrfLast = [op |-> "validate", token |-> k, res |-> FALSE]
        /\ Unexpired(issuedAt[k], now)

\* C6: validate_csrf_token returns true only for a token that is in the
\* store with an age strictly below 3600 seconds; for a stored token of age
\* 3600 or more and for an absent token it returns false, and in both of
\* these cases it leaves the store (the expired entry included) unchanged.
C6_FalseLeavesStore ==
    [][csrfLast'.op = "validate" =>
          LET k == csrfLast'.token IN
          /\ csrfLast'.res =>
                (k \in DOMAIN tokens /\ now - tokens[k] < CSRF_TOKEN_EXPIRY)
          /\ (k \in DOMAIN tokens /\ now - tokens[k] >= CSRF_TOKEN_EXPIRY) =>
                (~csrfLast'.res /\ tokens' = tokens)
          /\ k \notin DOMAIN tokens => (~csrfLast'.res /\ tokens' = tokens)]_vars

\* C6 witness: a validation has just returned false for a stored token whose
\* age is exactly 3600 seconds, and the token is still stored.
C6_Witness ==
    \E k \in Tokens :
        /\ csrfLast = [op |-> "validate", token |-> k, res |-> FALSE]
        /\ k \in DOMAIN tokens
        /\ now - tokens[k] = CSRF_TOKEN_EXPIRY

(***************************************************************************)
(* Claims about concurrent validations, checked under SpecCsrfThreads.     *)
(***************************************************************************)
Callers(k) == {th \in Threads : pc[th] # "idle" /\ arg[th] = k}

Spent(k) == {th \in Callers(k) : pc[th] = "done" /\ ret[th]}

\* C5: of the validate_csrf_token calls that run concurrently on one
\* issued, unexpired token exactly one returns true and all the others
\* return false; no token is ever spent twice.
C5_NoDoubleSpend ==
    \A k \in Tokens :
        /\ Cardinality(Spent(k)) <= 1
        /\ validCount[k] <= 1
        /\ ( /\ Callers(k) # {}
             /\ \A th \in Callers(k) : pc[th] = "done"
             /\ issuedAt[k] >= 0
             /\ Unexpired(issuedAt[k], now) ) => Cardinality(Spent(k)) = 1

\* C5 witness: every thread has called validate on the same issued token
\* while another call on it was in flight, all have returned, and exactly
\* one of them returned true.
C5_Witness ==
    \E k \in Tokens :
        /\ Callers(k) = Threads
        /\ \A th \in Threads : pc[th] = "done"
        /\ overlap
        /\ Unexpired(issuedAt[k], now)
        /\ Cardinality(Spent(k)) = 1
        /\ \E th \in Threads : ~ret[th]

(***************************************************************************)
(* Claims about the audit log, checked under SpecAudit.                    *)
(***************************************************************************)

\* C7: in every reachable state, after any interleaving of log_audit,
\* get_audit_logs and cleanup_audit_logs, the audit log holds at most 1000
\* entries.
C7_AtMost1000Entries == Len(auditLogs) <= MAX_AUDIT_LOGS

\* C7 witness: the log is full after more than 1000 appends, with a reader
\* and a sweep that removed an entry interleaved.
C7_Witness ==
    /\ Len(auditLogs) = MAX_AUDIT_LOGS
    /\ logged > MAX_AUDIT_LOGS
    /\ swept > 0
    /\ snapshot # << >>

Min(a, b) == IF a <= b THEN a ELSE b

\* C8: log_audit evicts in FIFO order: an append to a log of 1000 entries
\* removes exactly the oldest entry and puts the new one at the end, a
\* shorter log only grows by the new entry; so after N appends into an
\* empty log with no sweep the log holds exactly the min(N, 1000) most
\* recent entries user_(N-len) .. user_(N-1) in the order they were
\* appended, and none of the first N-1000.
C8_FifoEviction ==
    /\ [][logged' = logged + 1 =>
            LET new == auditLogs'[Len(auditLogs')] IN
            /\ new.user = logged
            /\ auditLogs' = IF Len(auditLogs) = MAX_AUDIT_LOGS
                            THEN Append(Tail(auditLogs), new)
                            ELSE Append(auditLogs, new)]_vars
    /\ [](swept = 0 =>
            /\ Len(auditLogs) = Min(logged, MAX_AUDIT_LOGS)
            /\ \A j \in 1 .. Len(auditLogs) :
                  auditLogs[j].user = logged - Len(auditLogs) + j - 1)

\* C8 witness: 1001 appends and no sweep: the log holds user_1 .. user_1000
\* and user_0 is gone.
C8_Witness ==
    /\ logged = MAX_AUDIT_LOGS + 1
    /\ swept = 0
    /\ Len(auditLogs) = MAX_AUDIT_LOGS
    /\ auditLogs[1].user = 1
    /\ auditLogs[MAX_AUDIT_LOGS].user = MAX_AUDIT_LOGS

(***************************************************************************)
(* Claims about the layout handlers, checked under SpecLayout.             *)
(*                                                                         *)
(* lastEvent.attempt marks the runs that are mutation attempts: a run of   *)
(* the auto-save effect that passes its auto_save && is_editing test with  *)
(* a title to save or is turned away by the rate limiter, every            *)
(* handle_save and handle_reset, a handle_file_upload that is turned away  *)
(* or rejects its file, and the onload callback that ends an upload.       *)
(***************************************************************************)

\* C9: every mutation attempt of the auto-save effect, handle_save,
\* handle_file_upload and handle_reset, successful or not and also when
\* the rate limiter rejects it, appends an entry to the audit log.
C9_EveryAttemptLogged ==
    [][(steps' = steps + 1 /\ lastEvent'.attempt) =>
          Len(auditLogs') = Len(auditLogs) + 1]_vars

\* a check_rate_limit call has returned Ok in this step: some layout
\* identifier has one more recorded request
RateOkRecorded ==
    \E i \in LayoutIds :
        /\ i \in DOMAIN limits'
        /\ Len(limits'[i]) =
              (IF i \in DOMAIN limits THEN Len(limits[i]) ELSE 0) + 1

\* C10: every handler that changes the stored layout configuration calls
\* check_rate_limit before the change and changes it only if the call
\* returned Ok.
C10_ChangeOnlyAfterRateOk ==
    [][(config' # config \/ storage' # storage) => RateOkRecorded]_vars

(***************************************************************************)
(* Claims about build_update, checked under SpecUpdate.                    *)
(***************************************************************************)
Returned == phase = "returned"

Kind == form.schema.typ.kind

\* the positions of the returned vector that hold an update of these types
Positions(types) == {i \in 1 .. Len(updates) : updates[i].type \in types}

\* "<prefix>.<id>" of a Record or Entry form
PrefixDotId == form.schema.typ.prefix \o "." \o GetValue(form, "_id").value

\* C11: in the vector build_update returns, for every schema type and every
\* form, every Delete and every Clear stands at a lower index than any
\* Insert.
C11_DestructiveBeforeInsert ==
    Returned =>
        \A i \in Positions({"Delete", "Clear"}), j \in Positions({"Insert"}) :
            i < j

\* a List update that returned a Clear, a Delete and an Insert
C11_Witness ==
    /\ Returned
    /\ Kind = "List"
    /\ Positions({"Clear"}) # {}
    /\ Positions({"Delete"}) # {}
    /\ Positions({"Insert"}) # {}

\* C12: for a Record{prefix} schema with _id = id: on an update the first
\* element is Clear{"<prefix>.<id>.", None} and any Insert has assert_empty
\* false; on a creation there is no Clear and any Insert has assert_empty
\* true; in both cases any Insert carries the prefix "<prefix>.<id>".
C12_RecordClearAndAssert ==
    (Returned /\ Kind = "Record") =>
        /\ form.is_update =>
              /\ Len(updates) >= 1
              /\ updates[1] = [type |-> "Clear",
                               prefix |-> PrefixDotId \o ".",
                               filter |-> << >>]
              /\ \A j \in Positions({"Insert"}) : ~updates[j].assert_empty
        /\ ~form.is_update =>
              /\ Positions({"Clear"}) = {}
              /\ \A j \in Positions({"Insert"}) : updates[j].assert_empty
        /\ \A j \in Positions({"Insert"}) :
              updates[j].prefix = <<PrefixDotId>>

\* a Record update that returned its Clear and an Insert
C12_Witness ==
    /\ Returned
    /\ Kind = "Record"
    /\ form.is_update
    /\ Len(updates) = 2
    /\ updates[2].type = "Insert"
    /\ updates[2].prefix = <<"p.id1">>

\* the string the form holds under "_value" ("" when it holds none)
ValueOfValue ==
    IF HasValue(form, "_value") /\ GetValue(form, "_value").tag = "Value"
    THEN GetValue(form, "_value").value
    ELSE ""

\* C13: for an Entry{prefix} schema build_update returns exactly one
\* element, Insert{None, !is_update, [("<prefix>.<id>", value of "_value")]},
\* whatever other keys and values the form holds.
C13_EntrySingleInsert ==
    (Returned /\ Kind = "Entry") =>
        updates = <<[type |-> "Insert",
                     prefix |-> << >>,
                     values |-> <<<<PrefixDotId, ValueOfValue>>>>,
                     assert_empty |-> ~form.is_update]>>

\* an Entry form that also holds a three-element array and a value under
\* other keys
C13_Witness ==
    /\ Returned
    /\ Kind = "Entry"
    /\ ValueOfValue = "val"
    /\ HasValue(form, "k") /\ GetValue(form, "k") = ArrayOf(3)
    /\ HasValue(form, "m") /\ GetValue(form, "m") = Value("y")
    /\ Len(updates) = 1


\* the form holds no value, or an empty one, under the key
HoldsNothing(id) ==
    \/ ~HasValue(form, id)
    \/ GetValue(form, id) \in {[tag |-> "Value", value |-> ""],
                               [tag |-> "Array", values |-> << >>],
                               [tag |-> "Expression", if_thens |-> << >>,
                                else_ |-> ""]}

\* the multivalue fields of the schema, and the fields an update deletes,
\* both in schema order
MultivalueFields == SelectSeq(form.schema.fields, LAMBDA fd : fd.multivalue)

DeletedFields ==
    SelectSeq(form.schema.fields,
              LAMBDA fd : fd.multivalue \/ HoldsNothing(fd.id))

\* what build_update returned, without its Insert
Destructive == SelectSeq(updates, LAMBDA u : u.type # "Insert")

\* C14: for a List schema with is_update = true build_update emits, in
\* schema order, one Clear{"<field>.", None} per multivalue field, then
\* exactly one Delete whose keys are the ids of all multivalue fields and of
\* all other fields whose form value is empty, in schema order; the Delete
\* is left out only when there is no such key.
C14_ListClearsThenDelete ==
    (Returned /\ Kind = "List" /\ form.is_update) =>
        Destructive =
            [i \in 1 .. Len(MultivalueFields) |->
                [type |-> "Clear",
                 prefix |-> MultivalueFields[i].id \o ".",
                 filter |-> << >>]]
            \o (IF DeletedFields = << >> THEN << >>
                ELSE <<[type |-> "Delete",
                        keys |-> [i \in 1 .. Len(DeletedFields) |->
                                    DeletedFields[i].id]]>>)

\* an update of a List whose multivalue field "m" is empty: a Clear of "m."
\* and "m" among the deleted keys, after the empty single field "k"
C14_Witness ==
    /\ Returned
    /\ Kind = "List"
    /\ form.is_update
    /\ HasValue(form, "m") /\ GetValue(form, "m") = Array(<< >>)
    /\ updates = <<[type |-> "Clear", prefix |-> "m.", filter |-> << >>],
                   [type |-> "Delete", keys |-> <<"k", "m">>]>>


\* The claims about the translation of a form value look at the value the
\* form holds under the key "k" and at the pairs of the Insert of the
\* common pass (a Record or List schema; an Entry schema returns before
\* it, see C13).
CommonPass == Returned /\ Kind # "Entry"

KHolds(tag) == HasValue(form, "k") /\ GetValue(form, "k").tag = tag

HasPrefix(s, p) == Len(s) >= Len(p) /\ SubSeq(s, 1, Len(p)) = p

\* the pairs build_update wrote
Written ==
    IF Positions({"Insert"}) = {} THEN << >>
    ELSE updates[Len(updates)].values

\* the pairs written under the bare key, and under the key with a suffix
Bare(key) == SelectSeq(Written, LAMBDA kv : kv[1] = key)

Suffixed(key) == SelectSeq(Written, LAMBDA kv : HasPrefix(kv[1], key \o "."))

\* the number of decimal digits of a natural number
RECURSIVE NumDigits(_)
NumDigits(x) == IF x < 10 THEN 1 ELSE 1 + NumDigits(x \div 10)

IsDigits(s) ==
    \A i \in 1 .. Len(s) :
        \E d \in 0 .. 9 : SubSeq(s, i, i) = SubSeq("0123456789", d + 1, d + 1)

\* the number a string of decimal digits denotes
RECURSIVE DecimalValue(_)
DecimalValue(s) ==
    IF s = "" THEN 0
    ELSE 10 * DecimalValue(SubSeq(s, 1, Len(s) - 1))
            + (CHOOSE d \in 0 .. 9 :
                 SubSeq(s, Len(s), Len(s)) = SubSeq("0123456789", d + 1, d + 1))

\* s is an index: idx written in exactly width decimal digits
IsIndex(s, idx, width) ==
    Len(s) = width /\ IsDigits(s) /\ DecimalValue(s) = idx

\* the order of the characters of the keys (their ASCII order)
Ord(c) ==
    CHOOSE i \in 1 .. 38 :
        SubSeq(".0123456789_abcdefghijklmnopqrstuvwxyz", i, i) = c

\* the lexicographic order of strings
RECURSIVE LexLess(_, _)
LexLess(a, b) ==
    IF b = "" THEN FALSE
    ELSE IF a = "" THEN TRUE
    ELSE IF Head(a) = Head(b) THEN LexLess(Tail(a), Tail(b))
    ELSE Ord(Head(a)) < Ord(Head(b))

\* what follows "<key>." in a written key
After(key, written_key) ==
    SubSeq(written_key, Len(key) + 2, Len(written_key))

\* C15: an Array of n > 1 elements under key k gives exactly the n pairs
\* ("k.<i>", element i), i = 0..n-1 in element order, every index padded
\* with zeros to the number of decimal digits of n-1, so that the
\* lexicographic order of the keys is the numeric order of the indices.
C15_ArrayIndicesPadded ==
    (CommonPass /\ KHolds("Array") /\ Len(GetValue(form, "k").values) > 1) =>
        LET values == GetValue(form, "k").values
            n == Len(values)
            pairs == Suffixed("k")
        IN  /\ Len(pairs) = n
            /\ Bare("k") = << >>
            /\ \A i \in 1 .. n :
                  /\ IsIndex(After("k", pairs[i][1]), i - 1, NumDigits(n - 1))
                  /\ pairs[i][2] = values[i]
            /\ \A i, j \in 1 .. n :
                  i < j => LexLess(pairs[i][1], pairs[j][1])

\* eleven elements were written under k.00 .. k.10
C15_Witness ==
    /\ CommonPass
    /\ KHolds("Array")
    /\ Len(Suffixed("k")) = 11
    /\ Suffixed("k")[1] = <<"k.00", "a">>
    /\ Suffixed("k")[10] = <<"k.09", "j">>
    /\ Suffixed("k")[11] = <<"k.10", "k">>

\* C16: an Array of exactly one element x under key k gives the single pair
\* ("k", x), and no pair whose key starts with "k.".
C16_SingletonArrayBare ==
    (CommonPass /\ KHolds("Array") /\ Len(GetValue(form, "k").values) = 1) =>
        /\ Bare("k") = <<<<"k", GetValue(form, "k").values[1]>>>>
        /\ Suffixed("k") = << >>

\* the one-element array ["a"] was written as ("k", "a"), next to another
\* value of the form
C16_Witness ==
    /\ CommonPass
    /\ KHolds("Array")
    /\ GetValue(form, "k").values = <<"a">>
    /\ Written = <<<<"k", "a">>, <<"m", "y">>>>


\* a written key is "<key>.<idx in width digits>.<part>"
IsPartKey(written_key, key, idx, width, part) ==
    /\ Len(written_key) = Len(key) + 1 + width + 1 + Len(part)
    /\ HasPrefix(written_key, key \o ".")
    /\ IsIndex(SubSeq(written_key, Len(key) + 2, Len(key) + 1 + width),
               idx, width)
    /\ SubSeq(written_key, Len(key) + 2 + width, Len(written_key))
          = "." \o part

\* C17: an Expression under key k with N >= 1 if/then pairs gives, in
\* order, ("k.<i>.if", if_i) then ("k.<i>.then", then_i) for i = 0..N-1 and
\* last ("k.<N>.else", else), every index, N too, padded to the number of
\* decimal digits of N; an Expression without if/then pairs gives the
\* single pair ("k", else).  (An Expression that holds nothing at all, no
\* pair and an empty else, is the empty value of C19.)
C17_ExpressionPairs ==
    (CommonPass /\ KHolds("Expression")
        /\ (GetValue(form, "k").if_thens # << >>
              \/ GetValue(form, "k").else_ # "")) =>
        LET expr == GetValue(form, "k")
            N == Len(expr.if_thens)
            width == NumDigits(N)
            pairs == Suffixed("k")
        IN  IF N >= 1
            THEN /\ Bare("k") = << >>
                 /\ Len(pairs) = 2 * N + 1
                 /\ \A i \in 1 .. N :
                       /\ IsPartKey(pairs[2 * i - 1][1], "k", i - 1, width,
                                    "if")
                       /\ pairs[2 * i - 1][2] = expr.if_thens[i].if_
                       /\ IsPartKey(pairs[2 * i][1], "k", i - 1, width,
                                    "then")
                       /\ pairs[2 * i][2] = expr.if_thens[i].then_
                 /\ IsPartKey(pairs[2 * N + 1][1], "k", N, width, "else")
                 /\ pairs[2 * N + 1][2] = expr.else_
            ELSE /\ Bare("k") = <<<<"k", expr.else_>>>>
                 /\ pairs = << >>

\* ten if/then pairs were written under k.00 .. k.09 and the else under
\* k.10
C17_Witness ==
    /\ CommonPass
    /\ KHolds("Expression")
    /\ Len(GetValue(form, "k").if_thens) = 10
    /\ Len(Suffixed("k")) = 21
    /\ Suffixed("k")[1] = <<"k.00.if", "ca">>
    /\ Suffixed("k")[20] = <<"k.09.then", "tj">>
    /\ Suffixed("k")[21] = <<"k.10.else", "e">>


\* every pair of every Insert build_update returned
AllWritten ==
    UNION {{updates[j].values[n] : n \in 1 .. Len(updates[j].values)} :
              j \in Positions({"Insert"})}

\* the entries of the form under internal keys, and the others
InternalKeys ==
    {form.values[i].key : i \in {n \in 1 .. Len(form.values) :
                                   HasPrefix(form.values[n].key, "_")}}

\* a written key that comes from the form key: the key itself or the key
\* with a suffix
ComesFrom(written_key, key) ==
    written_key = key \/ HasPrefix(written_key, key \o ".")


\* C18: no update build_update returns writes an internal key: for every
\* schema type, no pair of any Insert comes from a form key that starts
\* with '_' (the entries _id and _value are never written setting keys).
C18_InternalKeysNotWritten ==
    Returned =>
        \A kv \in AllWritten :
            /\ ~HasPrefix(kv[1], "_")
            /\ \A key \in InternalKeys : ~ComesFrom(kv[1], key)

\* a Record form that holds a string under _id and a non-empty array under
\* _value, and whose Insert wrote only the pair of "k"
C18_Witness ==
    /\ CommonPass
    /\ Kind = "Record"
    /\ InternalKeys = {"_id", "_value"}
    /\ GetValue(form, "_value") = Array(<<"p", "q">>)
    /\ AllWritten = {<<"k", "x">>}

\* the entries of the form that hold an empty value of some variant
EmptyEntries ==
    {i \in 1 .. Len(form.values) :
        form.values[i].value \in {[tag |-> "Value", value |-> ""],
                                  [tag |-> "Array", values |-> << >>],
                                  [tag |-> "Expression", if_thens |-> << >>,
                                   else_ |-> ""]}}

\* the form holds no non-empty value under a non-internal key
NothingToWrite ==
    \A i \in 1 .. Len(form.values) :
        HasPrefix(form.values[i].key, "_") \/ i \in EmptyEntries

\* C19: empty values of any variant are dropped: an empty Value string, an
\* empty Array and an empty Expression give no pair of any Insert, and no
\* Insert is returned when no pair was accumulated (no Insert is empty, and
\* the common pass returns none when every value it reads is empty).
C19_EmptyValuesDropped ==
    Returned =>
        /\ \A i \in EmptyEntries, kv \in AllWritten :
              ~ComesFrom(kv[1], form.values[i].key)
        /\ \A j \in Positions({"Insert"}) : updates[j].values # << >>
        /\ (Kind # "Entry" /\ NothingToWrite) => Positions({"Insert"}) = {}

\* a form whose "k" is an empty Expression and whose "m" is a string: only
\* the string was written
C19_Witness ==
    /\ CommonPass
    /\ HasValue(form, "k") /\ GetValue(form, "k") = Expression(<< >>, "")
    /\ HasValue(form, "m") /\ GetValue(form, "m") = Value("y")
    /\ AllWritten = {<<"m", "y">>}

\* the required discriminator of the schema is present
DiscriminatorsPresent ==
    Kind \in {"Record", "Entry"} =>
        \E i \in 1 .. Len(form.values) :
            /\ form.values[i].key = "_id"
            /\ form.values[i].value.tag = "Value"

\* build_update does not panic when the discriminators are present
Total == (phase # "form" /\ DiscriminatorsPresent) => Returned

\* C20: build_update is total given the required discriminators, and it
\* returns the empty sequence whenever the form holds no non-empty,
\* non-internal value, for every schema type and both values of is_update.
C20_EmptyWhenNothingToWrite ==
    /\ Total
    /\ (Returned /\ NothingToWrite) => updates = << >>

\* C20, amended: build_update is total given the required discriminators;
\* when the form holds no non-empty, non-internal value, a Record or List
\* schema returns no Insert, the empty sequence on a creation and only the
\* Clear and Delete of the update otherwise, and an Entry schema returns
\* its one Insert all the same.
C20_NoInsertWhenNothingToWrite ==
    /\ Total
    /\ (Returned /\ NothingToWrite) =>
          /\ Kind # "Entry" => Positions({"Insert"}) = {}
          /\ (Kind # "Entry" /\ ~form.is_update) => updates = << >>
          /\ Kind = "Entry" => Len(updates) = 1 /\ updates[1].type = "Insert"

\* a Record update whose only values are empty returned its Clear alone
C20_Witness ==
    /\ Returned
    /\ NothingToWrite
    /\ Kind = "Record"
    /\ form.is_update
    /\ HasValue(form, "k") /\ GetValue(form, "k") = Value("")
    /\ updates = <<[type |-> "Clear", prefix |-> "p.id1.", filter |-> << >>]>>


(***************************************************************************)
(* SettingsValues: array_values and format.                                *)
(***************************************************************************)
\* the entries of the map that array_values(settings, key) is to return
Matching(key) ==
    {i \in 1 .. Len(settings) :
        settings[i].key = key \/ HasPrefix(settings[i].key, key \o ".")}

\* C21: array_values(settings, key) returns exactly the (k, v) entries of
\* settings whose k equals key or starts with key followed by ".", each
\* once, in strictly ascending lexicographic order of k; a key that only
\* shares key as a prefix, without the ".", is not returned.
C21_ArrayValuesExact ==
    svOp.op = "array_values" =>
        /\ Len(shown) = Cardinality(Matching(svOp.key))
        /\ \A i \in Matching(svOp.key) :
              \E n \in 1 .. Len(shown) :
                  shown[n] = <<settings[i].key, settings[i].value>>
        /\ \A n \in 1 .. Len(shown) - 1 :
              LexLess(shown[n][1], shown[n + 1][1])

\* C21 witness: the map {"k.1":"b", "kx":"e", "k.0":"a", "k":"c"}, iterated
\* in that order, gives [("k","c"), ("k.0","a"), ("k.1","b")] for "k".
C21_Witness ==
    /\ svOp = [op |-> "array_values", key |-> "k"]
    /\ settings = <<[key |-> "k.1", value |-> "b"],
                    [key |-> "kx", value |-> "e"],
                    [key |-> "k.0", value |-> "a"],
                    [key |-> "k", value |-> "c"]>>
    /\ shown = <<<<"k", "c">>, <<"k.0", "a">>, <<"k.1", "b">>>>

\* the stored value of the field format was called with, if any
Stored == SettingsGet(settings, svOp.field.id)

Missing == ~SettingsHas(settings, svOp.field.id)

\* the stored value is not one the field's type can read
Unparsable ==
    /\ ~Missing
    /\ CASE svOp.field.typ = "Boolean" -> Stored \notin {"true", "false"}
         [] svOp.field.typ = "Duration" -> Stored # "5s"
         [] svOp.field.typ = "Rate" -> Stored # "100/1h"
         [] svOp.field.typ = "Size" ->
               \/ Stored = ""
               \/ \E i \in 1 .. Len(Stored) :
                     \A d \in 0 .. 9 : SubSeq(Stored, i, i) # Digit(d)
         [] svOp.field.typ = "Select" ->
               \A n \in 1 .. Len(svOp.field.items) :
                   svOp.field.items[n][1] # Stored
         [] OTHER -> FALSE

\* C22 as stated: format returns a string and, for every field type, a
\* missing or unparsable stored value renders as the empty string.
C22_MissingOrUnparsableIsEmpty ==
    svOp.op = "format" =>
        /\ shown \in STRING
        /\ (svOp.field.typ = "Array" /\ Matching(svOp.field.id) = {})
              => shown = ""
        /\ (svOp.field.typ # "Array" /\ (Missing \/ Unparsable))
              => shown = ""

\* C22 amended: format returns a string; a missing or unparsable stored
\* value renders as the empty string for Array, Duration, Rate, Size and
\* the default case, and a missing value also for Select; a Boolean whose
\* value is missing or is not "true" renders as "No", and a Select whose
\* value matches no item renders as the stored value itself.
C22_DegradesPerType ==
    svOp.op = "format" =>
        /\ shown \in STRING
        /\ (svOp.field.typ = "Array" /\ Matching(svOp.field.id) = {})
              => shown = ""
        /\ (svOp.field.typ \in {"Duration", "Rate", "Size", "Text"}
               /\ (Missing \/ Unparsable))
              => shown = ""
        /\ (svOp.field.typ = "Select" /\ Missing) => shown = ""
        /\ (svOp.field.typ = "Select" /\ Unparsable) => shown = Stored
        /\ (svOp.field.typ = "Boolean"
               /\ (Missing \/ Stored # "true"))
              => shown = "No"

\* C22 witness: a Boolean field without a stored value was formatted as
\* "No".
C22_Witness ==
    /\ svOp.op = "format"
    /\ svOp.field.typ = "Boolean"
    /\ Missing
    /\ shown = "No"


(***************************************************************************)
(* check_rate_limit under concurrent callers.                              *)
(***************************************************************************)
RlCallers(i) == {th \in RateThreads : rlPc[th] # "idle" /\ rlArg[th] = i}

RlOks(i) == {th \in RlCallers(i) : rlPc[th] = "done" /\ rlRet[th] = "Ok"}

Max(a, b) == IF a > b THEN a ELSE b

\* the events of identifier i that lie in the window
Recorded(i) ==
    IF i \in DOMAIN limits THEN Len(Retain(limits[i], now)) ELSE 0

\* C23: when m calls of check_rate_limit run concurrently on an identifier
\* that has c events in the window, exactly min(m, max(0, 60 - c)) of them
\* return Ok and exactly that many timestamps are added; the recorded count
\* never exceeds 60 in any interleaving.
C23_NoLostUpdate ==
    \A i \in Identifiers :
        /\ Recorded(i) <= MAX_REQUESTS_PER_WINDOW
        /\ ( /\ RlCallers(i) # {}
             /\ \A th \in RateThreads : rlPc[th] \in {"idle", "done"} )
           => /\ Cardinality(RlOks(i))
                   = Min(Cardinality(RlCallers(i)),
                         Max(0, MAX_REQUESTS_PER_WINDOW - rlPrior[i]))
              /\ Recorded(i) = rlPrior[i] + Cardinality(RlOks(i))

\* C23 witness: two calls came in together on an identifier with 59 events
\* in the window; one returned Ok, the other Err, and 60 are recorded.
C23_Witness ==
    \E i \in Identifiers :
        /\ rlPrior[i] = MAX_REQUESTS_PER_WINDOW - 1
        /\ Cardinality(RlCallers(i)) = 2
        /\ \A th \in RlCallers(i) : rlPc[th] = "done"
        /\ Cardinality(RlOks(i)) = 1
        /\ Recorded(i) = MAX_REQUESTS_PER_WINDOW


(***************************************************************************)
(* Further claims about the rate limiter, checked under SpecRate.          *)
(***************************************************************************)
\* the events of identifier i that lie in the window at instant t
EventsInWindow(lim, i, t) ==
    IF i \in DOMAIN lim THEN InWindow(lim[i], t) ELSE << >>

\* C24: rate limiting is per identifier: a check for identifier a changes
\* neither the recorded events of a different identifier b nor the result
\* of a later check for b, and a check returns Ok whenever its own
\* identifier is below capacity, however exhausted another identifier is.
C24_PerIdentifier ==
    [][rlLast'.op = "check" =>
          /\ \A b \in Identifiers \ {rlLast'.id} :
                /\ (b \in DOMAIN limits') = (b \in DOMAIN limits)
                /\ b \in DOMAIN limits => limits'[b] = limits[b]
                /\ \A later \in {now, now + RateTick, now + 2 * RateTick} :
                      check_rate_limit(limits', b, later).result
                          = check_rate_limit(limits, b, later).result
          /\ Len(EventsInWindow(limits, rlLast'.id, now))
                 < MAX_REQUESTS_PER_WINDOW
                => rlLast'.res = "Ok"]_vars

\* C24 witness: the subject is exhausted (60 events in the window, a check
\* rejected) and a check of another identifier has just returned Ok.
C24_Witness ==
    /\ Subject \in rejected
    /\ Subject \in DOMAIN limits
    /\ Len(InWindow(limits[Subject], now)) = MAX_REQUESTS_PER_WINDOW
    /\ rlLast.op = "check" /\ rlLast.id = "layout_config_save"
    /\ rlLast.res = "Ok"

\* C25: cleanup_rate_limits prunes every identifier's list to its events
\* younger than 60 seconds, in their order, removes exactly the identifiers
\* whose list is empty after pruning and keeps all the others.
C25_CleanupPrunesAndRemovesEmpty ==
    [][rlLast'.op = "cleanup" =>
          /\ DOMAIN limits' =
                {i \in DOMAIN limits :
                    \E n \in 1 .. Len(limits[i]) :
                        now - limits[i][n] < RATE_LIMIT_WINDOW}
          /\ \A i \in DOMAIN limits' :
                /\ limits'[i] = InWindow(limits[i], now)
                /\ limits'[i] # << >>
          /\ now' = now]_vars

\* C25 witness: a cleanup has removed the subject, whose events had all
\* left the window, and kept another identifier with an event inside it.
C25_Witness ==
    /\ rlLast.op = "cleanup"
    /\ Subject \in rejected
    /\ Subject \notin DOMAIN limits
    /\ "layout_config_save" \in DOMAIN limits
    /\ limits["layout_config_save"] = <<now - RateTick>>

\* C30: rejected attempts do not extend a lockout: once an identifier has
\* been answered Err, a check made 60 seconds or more after the oldest of
\* the 60 events that were recorded for it (so that fewer than 60 accepted
\* events are younger than 60 seconds) returns Ok, however many checks were
\* rejected in between.
C30_RejectionsDoNotExtendLockout ==
    [][( /\ rlLast'.op = "check"
         /\ rlLast'.id \in rejected
         /\ Len(InWindow(okLog[rlLast'.id], now)) < MAX_REQUESTS_PER_WINDOW )
          => rlLast'.res = "Ok"]_vars

\* C30 witness: the subject was rejected while 60 events were recorded, the
\* oldest of them half a window before the newest; a check made 60 seconds
\* after the oldest returned Ok although the newer ones are still in the
\* window.
C30_Witness ==
    /\ Subject \in rejected
    /\ rlLast.op = "check" /\ rlLast.id = Subject /\ rlLast.res = "Ok"
    /\ rlLast.before > 0
    /\ Len(limits[Subject]) = rlLast.before + 1
    /\ limits[Subject][1] = now - RateTick
    /\ now >= RATE_LIMIT_WINDOW


(***************************************************************************)
(* The sweep of the token store, checked under SpecCsrf.                   *)
(***************************************************************************)
Expired(k) == k \in DOMAIN tokens /\ now - tokens[k] >= CSRF_TOKEN_EXPIRY

\* C29: cleanup_expired_csrf_tokens removes exactly the tokens whose age is
\* 3600 seconds or more and keeps every younger token with its issue time;
\* no other operation removes an expired token.
C29_SweepRemovesExpiredOnly ==
    [][/\ csrfLast'.op = "cleanup" =>
            /\ DOMAIN tokens' = {k \in DOMAIN tokens : ~Expired(k)}
            /\ \A k \in DOMAIN tokens' : tokens'[k] = tokens[k]
            /\ now' = now
       /\ \A k \in Tokens :
             (Expired(k) /\ k \notin DOMAIN tokens')
                => csrfLast'.op = "cleanup"]_vars

\* C29 witness: a sweep has removed a token of age exactly 3600 seconds that
\* was never validated, and kept a younger one.
C29_Witness ==
    \E k, younger \in Tokens :
        /\ csrfLast.op = "cleanup"
        /\ issuedAt[k] >= 0 /\ now - issuedAt[k] = CSRF_TOKEN_EXPIRY
        /\ validCount[k] = 0
        /\ k \notin DOMAIN tokens
        /\ younger \in DOMAIN tokens
        /\ now - tokens[younger] < CSRF_TOKEN_EXPIRY


(***************************************************************************)
(* The layout handlers when the rate limiter turns them away, checked      *)
(* under SpecLayout.                                                       *)
(***************************************************************************)
\* check_rate_limit(identifier) returns Err in this state
Exceeded(identifier) ==
    Len(EventsInWindow(limits, identifier, now)) >= MAX_REQUESTS_PER_WINDOW

\* the handler that runs in this step calls check_rate_limit and gets Err
TurnedAway ==
    /\ steps' = steps + 1
    /\ \/ /\ lastEvent'.handler = "auto_save"
          /\ auto_save /\ is_editing
          /\ Exceeded("layout_config_save")
       \/ /\ lastEvent'.handler = "handle_file_upload"
          /\ Exceeded("layout_config_upload")
       \/ /\ lastEvent'.handler = "handle_reset"
          /\ Exceeded("layout_config_reset")

\* C28: when check_rate_limit returns Exceeded to the auto-save effect, to
\* handle_file_upload or to handle_reset, the handler shows the error
\* message and changes nothing: the configuration in use and in storage,
\* the pending logo and title and the CSRF token are as before the call.
C28_ExceededMutatesNothing ==
    [][TurnedAway =>
          /\ error' = "Rate limit exceeded"
          /\ config' = config
          /\ storage' = storage
          /\ new_logo_url' = new_logo_url
          /\ new_title' = new_title
          /\ csrf_token' = csrf_token
          /\ tokens' = tokens]_vars

\* C28 witness: the auto-save effect has just been turned away while the
\* pending title differs from the stored one, which is as it was.
C28_Witness ==
    /\ lastEvent = [handler |-> "auto_save", attempt |-> TRUE]
    /\ error = "Rate limit exceeded"
    /\ Exceeded("layout_config_save")
    /\ new_title # config.title
    /\ storage = config

\* a reset was turned away
C28_ResetTurnedAway ==
    /\ lastEvent.handler = "handle_reset"
    /\ error = "Rate limit exceeded"
    /\ Exceeded("layout_config_reset")

\* an upload was turned away
C28_UploadTurnedAway ==
    /\ lastEvent.handler = "handle_file_upload"
    /\ error = "Rate limit exceeded"
    /\ Exceeded("layout_config_upload")


(***************************************************************************)
(* The audit functions under concurrent callers, checked under             *)
(* SpecAuditThreads.                                                       *)
(***************************************************************************)
\* C26: get_audit_logs returns a copy of the log contents, oldest first, as
\* of the moment of the call; a snapshot that was returned is not changed by
\* the log_audit and cleanup_audit_logs calls that run after it or
\* concurrently with it; and a snapshot never shows an eviction without its
\* insertion: as long as no sweep has removed an entry it holds
\* min(appends applied, 1000) entries.
C26_SnapshotIsACopy ==
    [][/\ copies' = copies + 1 =>
            /\ snapshot' = auditLogs
            /\ auditLogs' = auditLogs
            /\ swept = 0 =>
                  Len(snapshot') = Min(logged, MAX_AUDIT_LOGS)
       /\ copies' = copies => snapshot' = snapshot]_vars

\* C26 witness: a snapshot of the full log was returned, and a log_audit
\* that ran after or beside it has evicted the oldest entry: the log starts
\* with user 1, the snapshot still with user 0.
C26_Witness ==
    /\ copies = 1
    /\ Len(snapshot) = MAX_AUDIT_LOGS
    /\ snapshot[1].user = 0
    /\ Len(auditLogs) = MAX_AUDIT_LOGS
    /\ auditLogs[1].user = 1
    /\ \A th \in AuditThreads : aPc[th] = "done"

\* the thread whose retain runs in this step
Sweeping(th) == aPc[th] = "retain" /\ aPc'[th] = "return"

\* C27 as stated: cleanup_audit_logs(max_age_days) removes exactly the
\* entries older than the cutoff, now minus max_age_days, and keeps every
\* entry that is not older, in order; it adds no entry, and apart from the
\* eviction of a full log it is the only operation that removes one.
C27_SweepKeepsNotOlder ==
    [][/\ \A th \in AuditThreads :
             Sweeping(th) =>
                 auditLogs' =
                     SelectSeq(auditLogs,
                               LAMBDA log :
                                   log.timestamp >= utc - aOp[th].max_age_days)
       /\ Len(auditLogs') < Len(auditLogs) =>
             \E th \in AuditThreads :
                 Sweeping(th) \/ aPc[th] = "pop_front"]_vars

\* a sweep with max_age_days = 1 on day 2 has removed the entry of day 1
C27_BoundaryEntryRemoved ==
    /\ \E th \in AuditThreads :
          /\ aOp[th] = [op |-> "cleanup_audit_logs", max_age_days |-> 1]
          /\ aPc[th] = "return"
    /\ \A th \in AuditThreads : aOp[th].op # "log_audit"
    /\ auditLogs # << >>
    /\ auditLogs[1].timestamp = 2


(***************************************************************************)
(* The shape of the rate-limit map, checked under SpecRate.                *)
(***************************************************************************)
\* C31: in every reachable state, after any interleaving of
\* check_rate_limit and cleanup_rate_limits, every identifier in the map has
\* a non-empty list of at most 60 timestamps in non-decreasing order.
C31_ListsNonEmptyBoundedOrdered ==
    \A i \in DOMAIN limits :
        /\ limits[i] # << >>
        /\ Len(limits[i]) <= MAX_REQUESTS_PER_WINDOW
        /\ \A n \in 1 .. Len(limits[i]) - 1 : limits[i][n] <= limits[i][n + 1]

\* C31 witness: after a cleanup the subject holds 60 timestamps of two
\* instants and another identifier holds two timestamps of two instants.
C31_Witness ==
    /\ rlLast.op = "cleanup"
    /\ Subject \in DOMAIN limits
    /\ Len(limits[Subject]) = MAX_REQUESTS_PER_WINDOW
    /\ limits[Subject][1] < limits[Subject][MAX_REQUESTS_PER_WINDOW]
    /\ "layout_config_save" \in DOMAIN limits
    /\ Len(limits["layout_config_save"]) = 2
    /\ limits["layout_config_save"][1] < limits["layout_config_save"][2]


(***************************************************************************)
(* The sweeps and the results of the calls, checked under SpecSweeps.      *)
(***************************************************************************)
\* C32: the sweeps are observationally transparent: with cleanup_rate_limits
\* and cleanup_expired_csrf_tokens made at any points of a history, every
\* later check_rate_limit and validate_csrf_token returns what it returns
\* in the same history without the sweeps.
C32_SweepsTransparent ==
    swLast.op \in {"check_rate_limit", "validate_csrf_token"}
        => swLast.res = swLast.plain

\* C32 witness: a sweep has removed an expired token that the store without
\* sweeps still holds, a validation of that token has returned false in
\* both, and a sweep has removed the subject's entry from the map.
C32_Witness ==
    /\ swLast = [op |-> "validate_csrf_token", res |-> "false",
                 plain |-> "false", differed |-> TRUE]
    /\ Subject \in DOMAIN plainLimits
    /\ Subject \notin DOMAIN limits

\* a check of an identifier whose entry the sweep had removed returned Ok
\* as it does without the sweep
C32_CheckAfterSweep ==
    /\ swLast = [op |-> "check_rate_limit", res |-> "Ok", plain |-> "Ok",
                 differed |-> TRUE]
    /\ limits = plainLimits

\* a check was rejected with and without the sweeps made before it
C32_RejectedAlike ==
    /\ swLast.op = "check_rate_limit"
    /\ swLast.res = "Err" /\ swLast.plain = "Err"


(***************************************************************************)
(* Further claims about build_update, checked under SpecUpdate.            *)
(***************************************************************************)
\* C33: for a List schema with is_update = false build_update emits no
\* Clear and no Delete, and for a List schema in either mode every Insert
\* has prefix None and assert_empty = false.
C33_ListCreationUnguarded ==
    (Returned /\ Kind = "List") =>
        /\ ~form.is_update => Positions({"Clear", "Delete"}) = {}
        /\ \A j \in Positions({"Insert"}) :
              /\ updates[j].prefix = None
              /\ updates[j].assert_empty = FALSE

\* C33 witness: the creation of a List form with a multivalue field and an
\* empty single-valued one returned one Insert, without prefix and without
\* assert_empty, and nothing else.
C33_Witness ==
    /\ Returned
    /\ Kind = "List"
    /\ ~form.is_update
    /\ form.schema.fields = <<FieldDecl("k", FALSE), FieldDecl("m", TRUE)>>
    /\ ~HasValue(form, "k")
    /\ Len(updates) = 1
    /\ updates[1].type = "Insert"
    /\ updates[1].prefix = None
    /\ updates[1].assert_empty = FALSE


\* where an update of a type stands in the fixed shape
Rank(type) == CASE type = "Clear" -> 1 [] type = "Delete" -> 2 [] OTHER -> 3

\* the entry of the form a written pair comes from
Owner(kv) ==
    CHOOSE i \in 1 .. Len(form.values) :
        \/ form.values[i].key = kv[1]
        \/ HasPrefix(kv[1], form.values[i].key \o ".")

\* C34: the vector build_update returns has a fixed shape for every form:
\* zero or more Clear, then at most one Delete, then at most one Insert,
\* which is the last element when present; and the pairs of the Insert
\* follow the stored order of the form's keys, the pairs of one key being
\* contiguous (no pair is followed by a pair of an earlier key).
C34_FixedShape ==
    Returned =>
        /\ \A i \in 1 .. Len(updates) - 1 :
              Rank(updates[i].type) <= Rank(updates[i + 1].type)
        /\ Cardinality(Positions({"Delete"})) <= 1
        /\ Cardinality(Positions({"Insert"})) <= 1
        /\ Positions({"Insert"}) \subseteq {Len(updates)}
        /\ \A a \in 1 .. Len(Written) - 1 :
              Owner(Written[a]) <= Owner(Written[a + 1])

\* C34 witness: the update of a List form that stores "m" before "k"
\* returned two Clears, a Delete and an Insert whose pairs are those of "m"
\* followed by the indexed pairs of the array under "k".
C34_Witness ==
    /\ Returned
    /\ Kind = "List"
    /\ Len(updates) = 4
    /\ updates[1].type = "Clear" /\ updates[2].type = "Clear"
    /\ updates[3].type = "Delete"
    /\ updates[4].type = "Insert"
    /\ Written = <<<<"m.0", "p">>, <<"m.1", "q">>,
                   <<"k.0", "a">>, <<"k.1", "b">>>>


\* a Settings map that holds exactly these pairs, iterated from the pair at
\* position first, forwards or backwards, around the sequence
MapOf(pairs, first, forwards) ==
    [i \in 1 .. Len(pairs) |->
        LET at == IF forwards
                  THEN ((first + i - 2) % Len(pairs)) + 1
                  ELSE ((first - i + Len(pairs)) % Len(pairs)) + 1
        IN  [key |-> pairs[at][1], value |-> pairs[at][2]]]

\* the values of the pairs array_values returns
ValuesOf(results) == [i \in 1 .. Len(results) |-> results[i][2]]

\* C35: for an Array of n >= 1 elements under key k, the pairs build_update
\* emits for it, put into an empty Settings map (iterated from its first,
\* middle or last entry, forwards or backwards), are read back by array_values(settings, k) as exactly
\* the n elements in their original order.
C35_ArrayRoundTrip ==
    (CommonPass /\ KHolds("Array") /\ GetValue(form, "k").values # << >>) =>
        LET values == GetValue(form, "k").values
            pairs == Bare("k") \o Suffixed("k")
        IN  /\ pairs # << >>
            /\ \A first \in {1, (Len(pairs) + 1) \div 2, Len(pairs)} :
               \A forwards \in BOOLEAN :
                  LET read == array_values(MapOf(pairs, first, forwards), "k")
                  IN  /\ ValuesOf(read) = values
                      /\ \A i \in 1 .. Len(read) : read[i][1] = pairs[i][1]
            /\ ValuesOf(array_values(MapOf(Written, Len(Written), FALSE), "k"))
                  = values

\* C35 witness: eleven elements were written under k.00 .. k.10 and the
\* map iterated backwards gives them back from "a" to "k".
C35_Witness ==
    /\ CommonPass
    /\ KHolds("Array")
    /\ Len(GetValue(form, "k").values) = 11
    /\ LET read == array_values(MapOf(Suffixed("k"), 11, FALSE), "k")
       IN  /\ Len(read) = 11
           /\ read[1] = <<"k.00", "a">>
           /\ read[3] = <<"k.02", "c">>
           /\ read[11] = <<"k.10", "k">>
           /\ MapOf(Suffixed("k"), 11, FALSE)[1].key = "k.10"

\* C35, one element: the bare pair ("k", x) is read back as the one element
C35_SingletonRoundTrip ==
    /\ CommonPass
    /\ KHolds("Array")
    /\ Written # << >>
    /\ Bare("k") = <<<<"k", "a">>>>
    /\ array_values(MapOf(Written, 1, TRUE), "k") = <<<<"k", "a">>>>


\* C36: no path installs a layout configuration that fails
\* LayoutConfig::validate: every step of the auto-save effect, handle_save
\* or handle_reset that changes the configuration or what is stored leaves
\* a configuration with a non-empty title of at most 100 bytes and a logo
\* URL that is empty or accepted by validate_url.
C36_InstalledConfigValid ==
    [][(config' # config \/ storage' # storage) =>
            /\ validate(config') = "Ok"
            /\ validate(storage') = "Ok"]_vars

\* C36: handle_save has stored a title of 101 bytes
C36_LongTitleStored ==
    /\ storage.title = LongTitle
    /\ config.title = LongTitle
    /\ validate(storage) = "Title must be less than 100 characters"

\* C36: handle_save has stored a logo URL validate_url turns down
C36_ScriptUrlStored ==
    /\ storage.logo_url = "javascript:alert(1)"
    /\ validate([storage EXCEPT !.title = "A"]) = "Invalid logo URL"

====
